---- MODULE Spec2Model ----
(***************************************************************************)
(* Model of tsk/fs/exaftfs_dent.c (The Sleuth Kit, exFAT directory entry   *)
(* parsing): the name-info accumulator, its handlers for the directory     *)
(* entry types, and the sector/entry loop of exfatfs_dent_parse_buf.       *)
(*                                                                         *)
(* The directory buffer is read strictly forward (the read pointer dentry  *)
(* is only ever incremented), so each buffer position is read at most      *)
(* once; the content of a position is therefore chosen when it is read.    *)
(* Sizes are scaled down (see the bounds and the scaled fields below).     *)
(***************************************************************************)
EXTENDS Integers, Sequences, FiniteSets, TLC

(* ------------------------------ bounds --------------------------------- *)
\* Number of sectors in the directory buffer (a_buf_len / ssize).
NumSectors == 2
\* Largest secondary entry count a file entry declares (uint8_t, scaled).
MaxSecondaryCount == 3
\* Largest name length a stream entry declares (uint8_t, scaled).
MaxNameLength == 3

(* ----------------------- file system geometry -------------------------- *)
\* a_fatfs->dentry_cnt_se: directory entries per sector (scaled).
dentry_cnt_se == 2
\* Bytes in one directory entry, sizeof(a_dentry->data).
DentrySize == 32
\* a_fatfs->ssize: bytes per sector.
ssize == dentry_cnt_se * DentrySize
\* First inode address of the file system.
FATFS_FIRSTINO == 2
\* Sectors in the longest buffer parsed (one more than NumSectors, parsed
\* only with an unreadable first sector, see SpecSkip).
MaxSectors == NumSectors + 1
\* fs->last_inum: sectors 0..MaxSectors-1 are wholly in range, sector
\* MaxSectors has only its first entry in range, the next sector has none.
last_inum == FATFS_FIRSTINO + dentry_cnt_se * MaxSectors
\* Inode address of the first entry of a sector.
FATFS_SECT_2_INODE(sect) == FATFS_FIRSTINO + dentry_cnt_se * sect
fatfs_is_inum_in_range(inum) == FATFS_FIRSTINO <= inum /\ inum <= last_inum

\* Capacity of fs_name->name (scaled; like the original it is larger than
\* the longest declarable name plus one segment).
EXFATFS_MAX_NAME_LEN_UTF8 == 32
\* UTF-16 code units carried by one file name entry (scaled).
EXFATFS_MAX_FILE_NAME_SEGMENT_LENGTH == 2

(* ------------------------- directory entry types ----------------------- *)
EXFATFS_DIR_ENTRY_TYPE_NONE == "NONE"
EXFATFS_DIR_ENTRY_TYPE_FILE == "FILE"
EXFATFS_DIR_ENTRY_TYPE_DELETED_FILE == "DELETED_FILE"
EXFATFS_DIR_ENTRY_TYPE_FILE_STREAM == "FILE_STREAM"
EXFATFS_DIR_ENTRY_TYPE_DELETED_FILE_STREAM == "DELETED_FILE_STREAM"
EXFATFS_DIR_ENTRY_TYPE_FILE_NAME == "FILE_NAME"
EXFATFS_DIR_ENTRY_TYPE_DELETED_FILE_NAME == "DELETED_FILE_NAME"
EXFATFS_DIR_ENTRY_TYPE_VOLUME_LABEL == "VOLUME_LABEL"
EXFATFS_DIR_ENTRY_TYPE_VOLUME_LABEL_EMPTY == "VOLUME_LABEL_EMPTY"
EXFATFS_DIR_ENTRY_TYPE_VOLUME_GUID == "VOLUME_GUID"
EXFATFS_DIR_ENTRY_TYPE_ALLOC_BITMAP == "ALLOC_BITMAP"
EXFATFS_DIR_ENTRY_TYPE_UPCASE_TABLE == "UPCASE_TABLE"
EXFATFS_DIR_ENTRY_TYPE_TEX_FAT == "TEX_FAT"
EXFATFS_DIR_ENTRY_TYPE_ACT == "ACT"

FileTypes == {EXFATFS_DIR_ENTRY_TYPE_FILE, EXFATFS_DIR_ENTRY_TYPE_DELETED_FILE}
StreamTypes ==
    {EXFATFS_DIR_ENTRY_TYPE_FILE_STREAM, EXFATFS_DIR_ENTRY_TYPE_DELETED_FILE_STREAM}
NameTypes ==
    {EXFATFS_DIR_ENTRY_TYPE_FILE_NAME, EXFATFS_DIR_ENTRY_TYPE_DELETED_FILE_NAME}
LabelTypes ==
    {EXFATFS_DIR_ENTRY_TYPE_VOLUME_LABEL, EXFATFS_DIR_ENTRY_TYPE_VOLUME_LABEL_EMPTY}
SpecialTypes ==
    {EXFATFS_DIR_ENTRY_TYPE_VOLUME_GUID, EXFATFS_DIR_ENTRY_TYPE_ALLOC_BITMAP,
     EXFATFS_DIR_ENTRY_TYPE_UPCASE_TABLE, EXFATFS_DIR_ENTRY_TYPE_TEX_FAT,
     EXFATFS_DIR_ENTRY_TYPE_ACT}

\* The value of the type byte data[0] of each entry type.
TypeByte(t) ==
    CASE t = EXFATFS_DIR_ENTRY_TYPE_FILE -> 133
      [] t = EXFATFS_DIR_ENTRY_TYPE_DELETED_FILE -> 5
      [] t = EXFATFS_DIR_ENTRY_TYPE_FILE_STREAM -> 192
      [] t = EXFATFS_DIR_ENTRY_TYPE_DELETED_FILE_STREAM -> 64
      [] t = EXFATFS_DIR_ENTRY_TYPE_FILE_NAME -> 193
      [] t = EXFATFS_DIR_ENTRY_TYPE_DELETED_FILE_NAME -> 65
      [] t = EXFATFS_DIR_ENTRY_TYPE_VOLUME_LABEL -> 131
      [] t = EXFATFS_DIR_ENTRY_TYPE_VOLUME_LABEL_EMPTY -> 3
      [] t = EXFATFS_DIR_ENTRY_TYPE_VOLUME_GUID -> 160
      [] t = EXFATFS_DIR_ENTRY_TYPE_ALLOC_BITMAP -> 129
      [] t = EXFATFS_DIR_ENTRY_TYPE_UPCASE_TABLE -> 130
      [] t = EXFATFS_DIR_ENTRY_TYPE_TEX_FAT -> 161
      [] t = EXFATFS_DIR_ENTRY_TYPE_ACT -> 226
      [] OTHER -> 255

(* --------------------------- name record values ------------------------ *)
TSK_FS_NAME_TYPE_UNDEF == "UNDEF"
TSK_FS_NAME_TYPE_REG == "REG"
TSK_FS_NAME_TYPE_DIR == "DIR"
TSK_FS_NAME_FLAG_ALLOC == "ALLOC"
TSK_FS_NAME_FLAG_UNALLOC == "UNALLOC"

TSK_OK == "TSK_OK"
TSK_ERR == "TSK_ERR"
TSK_COR == "TSK_COR"
\* retval while the parse has not returned.
NoRetval == "none"

(* ------------------------ C strings in fs_name->name ------------------- *)
\* fs_name->name is a char array of EXFATFS_MAX_NAME_LEN_UTF8 bytes; the C
\* index i is element i + 1 of the sequence.
NameIdx == 1..EXFATFS_MAX_NAME_LEN_UTF8

\* strlen(name): the number of bytes before the first NUL.
strlen(name) ==
    IF \E i \in NameIdx : name[i] = 0
    THEN (CHOOSE i \in NameIdx : name[i] = 0 /\ \A j \in 1..(i - 1) : name[j] # 0) - 1
    ELSE EXFATFS_MAX_NAME_LEN_UTF8

\* The C string held in the array.
CStr(name) == SubSeq(name, 1, strlen(name))

\* name[i] = b
Poke(name, i, b) ==
    IF i + 1 \in NameIdx THEN [name EXCEPT ![i + 1] = b] ELSE name

\* memcpy(name + off, bytes, Len(bytes)), clipped to the array.
WriteBytes(name, off, bytes) ==
    [i \in NameIdx |->
        IF off < i /\ i <= off + Len(bytes) THEN bytes[i - off] ELSE name[i]]

\* strcpy(name, str)
strcpy(name, str) == Poke(WriteBytes(name, 0, str), Len(str), 0)

\* strcat(name, str)
strcat(name, str) ==
    Poke(WriteBytes(name, strlen(name), str), strlen(name) + Len(str), 0)

(* ----------------------- UTF-16 to UTF-8 conversion -------------------- *)
\* A UTF-16 code unit the conversion rejects (an unpaired surrogate).
BadUnit == 55296

RECURSIVE GoodPrefixLen(_, _)
\* Number of leading code units of src, at most n, before the first bad one.
GoodPrefixLen(src, n) ==
    IF n = 0 \/ src = << >> \/ Head(src) = BadUnit
    THEN 0
    ELSE 1 + GoodPrefixLen(Tail(src), n - 1)

\* The UTF-8 encoding of one code unit of the basic multilingual plane.
Utf8OfUnit(u) ==
    IF u < 128 THEN <<u>>
    ELSE IF u < 2048 THEN <<192 + (u \div 64), 128 + (u % 64)>>
    ELSE <<224 + (u \div 4096), 128 + ((u \div 64) % 64), 128 + (u % 64)>>

RECURSIVE Utf8OfUnits(_)
Utf8OfUnits(src) ==
    IF src = << >> THEN << >> ELSE Utf8OfUnit(Head(src)) \o Utf8OfUnits(Tail(src))

Min(a, b) == IF a < b THEN a ELSE b

\* fatfs_utf16_inode_str_2_utf8(fatfs, src, src_len, dest, dest_len, ...):
\* converts the first src_len code units of src to UTF-8 at the START of
\* dest.  On success the result is NUL-terminated; on failure the bytes
\* converted before the failure stay in dest, unterminated.
fatfs_utf16_inode_str_2_utf8(src, src_len, dest, dest_len) ==
    LET want == Min(src_len, Len(src))
        good == GoodPrefixLen(src, want)
        bytes == Utf8OfUnits(SubSeq(src, 1, good))
        fits == Len(bytes) <= dest_len
        ok == good = want /\ fits
        put == SubSeq(bytes, 1, Min(Len(bytes), dest_len))
        written == WriteBytes(dest, 0, put)
    IN  [ok |-> ok,
         dest |-> IF ok
                  THEN Poke(written, Min(Len(bytes), dest_len - 1), 0)
                  ELSE written]

(* ---------------------------- directory entries --------------------- *)
\* A directory entry is the pointer into the buffer (pos: its index in
\* a_buf, counted in entries) together with the fields its 32 bytes hold.
\* Only the fields the parser reads are kept; all other bytes are zero.
BlankFields ==
    [entry_type |-> EXFATFS_DIR_ENTRY_TYPE_NONE, secondary_entries_count |-> 0,
     check_sum |-> 0, attr_directory |-> FALSE, file_name_length |-> 0,
     utf16_name_chars |-> << >>, utf16_char_count |-> 0, volume_label |-> << >>]

\* Declared check sums tried in file entries (16-bit field).
CheckSums == {4660}
\* Contents of a file name entry: ASCII only, ASCII then U+00E9 (two bytes
\* in UTF-8), and a segment whose second code unit cannot be converted.
NameSegments == {<<65, 66>>, <<67, 233>>, <<68, BadUnit>>}
\* Contents of a volume label entry (label array scaled to two code units).
VolumeLabels == {<<76, 77>>, <<76, BadUnit>>}
\* Declared lengths of the volume labels tried.
LabelCounts == {1}

FileFields ==
    {[BlankFields EXCEPT !.entry_type = t, !.secondary_entries_count = n,
                         !.check_sum = c, !.attr_directory = d] :
        t \in FileTypes, n \in 0..MaxSecondaryCount, c \in CheckSums, d \in BOOLEAN}
StreamFields ==
    {[BlankFields EXCEPT !.entry_type = t, !.file_name_length = l] :
        t \in StreamTypes, l \in 0..MaxNameLength}
NameFields ==
    {[BlankFields EXCEPT !.entry_type = t, !.utf16_name_chars = u] :
        t \in NameTypes, u \in NameSegments}
LabelFields ==
    {[BlankFields EXCEPT !.entry_type = EXFATFS_DIR_ENTRY_TYPE_VOLUME_LABEL,
                         !.utf16_char_count = k, !.volume_label = v] :
        k \in LabelCounts, v \in VolumeLabels}
    \cup {[BlankFields EXCEPT !.entry_type = EXFATFS_DIR_ENTRY_TYPE_VOLUME_LABEL_EMPTY]}
SpecialFields == {[BlankFields EXCEPT !.entry_type = t] : t \in SpecialTypes}
\* Thirty-two bytes that are no directory entry.
JunkFields == {BlankFields}

DentryFields ==
    FileFields \cup StreamFields \cup NameFields \cup LabelFields
        \cup SpecialFields \cup JunkFields

\* The entry at buffer position pos holding the fields f.
DentryAt(pos, f) ==
    [pos |-> pos, entry_type |-> f.entry_type,
     secondary_entries_count |-> f.secondary_entries_count,
     check_sum |-> f.check_sum, attr_directory |-> f.attr_directory,
     file_name_length |-> f.file_name_length,
     utf16_name_chars |-> f.utf16_name_chars,
     utf16_char_count |-> f.utf16_char_count, volume_label |-> f.volume_label]

\* No entry (current_dentry before the first entry is read).
NoDentry == DentryAt(-1, BlankFields)

\* Bytes of a sequence of UTF-16 code units, little endian.
RECURSIVE Utf16Bytes(_)
Utf16Bytes(units) ==
    IF units = << >> THEN << >>
    ELSE <<Head(units) % 256, Head(units) \div 256>> \o Utf16Bytes(Tail(units))

\* FATFS_ATTR_DIRECTORY, the directory bit of attrs[0].
FATFS_ATTR_DIRECTORY == 16

\* a_dentry->data: the 32 bytes of an entry, data[i] being element i + 1.
DentryData(e) ==
    LET head ==
            CASE e.entry_type \in FileTypes ->
                    <<TypeByte(e.entry_type), e.secondary_entries_count,
                      e.check_sum % 256, e.check_sum \div 256,
                      IF e.attr_directory THEN FATFS_ATTR_DIRECTORY ELSE 0>>
              [] e.entry_type \in StreamTypes ->
                    <<TypeByte(e.entry_type), 0, 0, e.file_name_length>>
              [] e.entry_type \in NameTypes ->
                    <<TypeByte(e.entry_type), 0>> \o Utf16Bytes(e.utf16_name_chars)
              [] e.entry_type = EXFATFS_DIR_ENTRY_TYPE_VOLUME_LABEL ->
                    <<TypeByte(e.entry_type), e.utf16_char_count>>
                        \o Utf16Bytes(e.volume_label)
              [] OTHER -> <<TypeByte(e.entry_type)>>
    IN  [i \in 1..DentrySize |-> IF i <= Len(head) THEN head[i] ELSE 0]

\* exfatfs_is_dentry(a_fatfs, a_dentry, a_do_basic_tests_only): the type of
\* the entry, or NONE for bytes that are no entry.  The model's entries
\* other than the junk entry are well formed, and a well-formed entry is
\* classified by its type byte under either value of the hint.
exfatfs_is_dentry(a_dentry, a_do_basic_tests_only) == a_dentry.entry_type

(* ------------------------------ check sum ------------------------------ *)
\* The largest value of the type int, in which the check sum expression is
\* evaluated (its uint16_t operands are promoted to int).
INT_MAX == 2147483647

\* ((check_sum << 15) | (check_sum >> 1)) as an int: the two operands share
\* no bit, so the bitwise or is their sum; it is at most INT_MAX.
CheckSumShifted(check_sum) == (check_sum * 32768) + (check_sum \div 2)

\* TRUE when adding the byte overflows the int: undefined behaviour.
CheckSumStepOverflows(check_sum, byte_to_add) ==
    CheckSumShifted(check_sum) > INT_MAX - byte_to_add

\* One step of the check sum where the addition does not overflow: rotate
\* right by one in 16 bits, add the byte, store into the uint16_t field.
CheckSumStep(check_sum, byte_to_add) ==
    (CheckSumShifted(check_sum) + byte_to_add) % 65536

\* One step of the check sum where the addition overflows and the build
\* wraps the sum in the 32 bits of the int before it is stored.
CheckSumStepWrapped(check_sum, byte_to_add) ==
    ((CheckSumShifted(check_sum) - INT_MAX - 1) + (byte_to_add - INT_MAX - 1))
        % 65536

\* byte_to_add for the byte at index: the in-use tag for the tag of a
\* deleted entry, the byte itself otherwise.
ByteToAdd(dentry_type, data, index) ==
    IF index = 0
    THEN CASE dentry_type = EXFATFS_DIR_ENTRY_TYPE_DELETED_FILE ->
                TypeByte(EXFATFS_DIR_ENTRY_TYPE_FILE)
           [] dentry_type = EXFATFS_DIR_ENTRY_TYPE_DELETED_FILE_STREAM ->
                TypeByte(EXFATFS_DIR_ENTRY_TYPE_FILE_STREAM)
           [] dentry_type = EXFATFS_DIR_ENTRY_TYPE_DELETED_FILE_NAME ->
                TypeByte(EXFATFS_DIR_ENTRY_TYPE_FILE_NAME)
           [] OTHER -> TypeByte(dentry_type)
    ELSE data[index + 1]

\* TRUE for the bytes the loop leaves out: the expected check sum, bytes 2
\* and 3 of a file entry.
CheckSumSkips(dentry_type, index) ==
    dentry_type \in FileTypes /\ (index = 2 \/ index = 3)

RECURSIVE CheckSumFrom(_, _, _, _)
\* The loop of exfatfs_update_file_entry_set_checksum from index on, in a
\* build that wraps an overflowing sum.
CheckSumFrom(check_sum, dentry_type, data, index) ==
    CASE index >= DentrySize -> check_sum
      [] index < DentrySize /\ CheckSumSkips(dentry_type, index) ->
            CheckSumFrom(check_sum, dentry_type, data, index + 1)
      [] /\ index < DentrySize /\ ~CheckSumSkips(dentry_type, index)
         /\ CheckSumStepOverflows(check_sum,
                                  ByteToAdd(dentry_type, data, index)) ->
            CheckSumFrom(CheckSumStepWrapped(check_sum,
                            ByteToAdd(dentry_type, data, index)),
                         dentry_type, data, index + 1)
      [] OTHER ->
            CheckSumFrom(CheckSumStep(check_sum,
                            ByteToAdd(dentry_type, data, index)),
                         dentry_type, data, index + 1)

RECURSIVE CheckSumOverflowsFrom(_, _, _, _)
\* TRUE when a step of the loop from index on overflows the int.
CheckSumOverflowsFrom(check_sum, dentry_type, data, index) ==
    CASE index >= DentrySize -> FALSE
      [] index < DentrySize /\ CheckSumSkips(dentry_type, index) ->
            CheckSumOverflowsFrom(check_sum, dentry_type, data, index + 1)
      [] /\ index < DentrySize /\ ~CheckSumSkips(dentry_type, index)
         /\ CheckSumStepOverflows(check_sum,
                                  ByteToAdd(dentry_type, data, index)) -> TRUE
      [] OTHER ->
            CheckSumOverflowsFrom(CheckSumStep(check_sum,
                                    ByteToAdd(dentry_type, data, index)),
                                  dentry_type, data, index + 1)

\* TRUE when the check sum update of a_dentry overflows the int.
CheckSumOverflows(a_name_info, a_dentry) ==
    CheckSumOverflowsFrom(a_name_info.actual_check_sum, a_dentry.entry_type,
                          DentryData(a_dentry), 0)

\* exfatfs_update_file_entry_set_checksum(a_name_info, a_dentry), in a build
\* that wraps an overflowing sum.  A sum overflows only from the running
\* value 65535, a value the entries of the parser's runs below never
\* produce.
exfatfs_update_file_entry_set_checksum(a_name_info, a_dentry) ==
    [a_name_info EXCEPT !.actual_check_sum =
        CheckSumFrom(@, a_dentry.entry_type, DentryData(a_dentry), 0)]

(* --------------------- EXFATFS_FS_NAME_INFO ---------------------------- *)
\* The name info object: the fields of EXFATFS_FS_NAME_INFO, with fs_name
\* (the TSK_FS_NAME under assembly) and fs_dir (the TSK_FS_DIR the names are
\* added to, as the sequence of the names added so far).
\*
\* Two history fields record where names come from; the code has no such
\* fields and never reads them:
\*   opener  the entry that started the name under assembly, NoOpener when
\*           there is none: its buffer position, its type, its directory
\*           attribute, its inode address, the allocation status of the
\*           sector being parsed when it was read, and the UTF-16 code units
\*           taken so far from the name entries that followed it;
\*   origin  for each name in fs_dir, the buffer position and the type of
\*           the opener it was assembled from.
NoOpener ==
    [pos |-> -1, entry_type |-> EXFATFS_DIR_ENTRY_TYPE_NONE,
     attr_directory |-> FALSE, inum |-> 0, sector_is_allocated |-> 0,
     units |-> << >>]
OpenerOf(a_name_info, a_dentry, a_inum) ==
    [pos |-> a_dentry.pos, entry_type |-> a_dentry.entry_type,
     attr_directory |-> a_dentry.attr_directory, inum |-> a_inum,
     sector_is_allocated |-> a_name_info.sector_is_allocated,
     units |-> << >>]
OriginOf(opener) == [pos |-> opener.pos, entry_type |-> opener.entry_type]

\* An array of EXFATFS_MAX_NAME_LEN_UTF8 zero bytes.
ZeroName == [i \in NameIdx |-> 0]

\* The name info object after the set-up in exfatfs_dent_parse_buf: the
\* object is zeroed, its name is empty, its directory is the caller's.
InitNameInfo ==
    [sector_is_allocated |-> 0,
     last_dentry_type |-> EXFATFS_DIR_ENTRY_TYPE_NONE,
     expected_secondary_entry_count |-> 0,
     actual_secondary_entry_count |-> 0,
     expected_check_sum |-> 0,
     actual_check_sum |-> 0,
     expected_name_length |-> 0,
     actual_name_length |-> 0,
     fs_name |-> [name |-> ZeroName, meta_addr |-> 0,
                  type |-> TSK_FS_NAME_TYPE_UNDEF,
                  flags |-> TSK_FS_NAME_FLAG_ALLOC],
     fs_dir |-> << >>,
     opener |-> NoOpener,
     origin |-> << >>]

\* A reset that forgets to empty the name (mutation of
\* exfatfs_reset_name_info).
reset_name_info_KeepsName(a_name_info) ==
    [a_name_info EXCEPT
        !.last_dentry_type = EXFATFS_DIR_ENTRY_TYPE_NONE,
        !.expected_secondary_entry_count = 0,
        !.actual_secondary_entry_count = 0,
        !.expected_check_sum = 0,
        !.actual_check_sum = 0,
        !.expected_name_length = 0,
        !.actual_name_length = 0,
        !.fs_name.meta_addr = 0,
        !.fs_name.type = TSK_FS_NAME_TYPE_UNDEF,
        !.fs_name.flags = TSK_FS_NAME_FLAG_ALLOC,
        !.opener = NoOpener]

\* exfatfs_reset_name_info(a_name_info)
exfatfs_reset_name_info(a_name_info) ==
    [a_name_info EXCEPT
        !.last_dentry_type = EXFATFS_DIR_ENTRY_TYPE_NONE,
        !.expected_secondary_entry_count = 0,
        !.actual_secondary_entry_count = 0,
        !.expected_check_sum = 0,
        !.actual_check_sum = 0,
        !.expected_name_length = 0,
        !.actual_name_length = 0,
        !.fs_name.name = Poke(@, 0, 0),
        !.fs_name.meta_addr = 0,
        !.fs_name.type = TSK_FS_NAME_TYPE_UNDEF,
        !.fs_name.flags = TSK_FS_NAME_FLAG_ALLOC,
        !.opener = NoOpener]

\* tsk_fs_dir_add(a_fs_dir, a_fs_name): the directory gets a copy of the name.
tsk_fs_dir_add(a_fs_dir, a_fs_name) ==
    Append(a_fs_dir, [name |-> CStr(a_fs_name.name),
                      meta_addr |-> a_fs_name.meta_addr,
                      type |-> a_fs_name.type,
                      flags |-> a_fs_name.flags])

\* A save of the name made only when the check sum computed is the check
\* sum the file entry declared (mutation of
\* exfatfs_add_name_to_dir_and_reset_info).
add_name_to_dir_IfCheckSumsAgree(a_name_info) ==
    IF strlen(a_name_info.fs_name.name) > 0
        /\ a_name_info.actual_check_sum = a_name_info.expected_check_sum
    THEN exfatfs_reset_name_info(
            [a_name_info EXCEPT
                !.fs_dir = tsk_fs_dir_add(@, a_name_info.fs_name),
                !.origin = Append(@, OriginOf(a_name_info.opener))])
    ELSE exfatfs_reset_name_info(a_name_info)

\* A save of the name that does not reset the name info (mutation of
\* exfatfs_add_name_to_dir_and_reset_info).
add_name_to_dir_WithoutReset(a_name_info) ==
    IF strlen(a_name_info.fs_name.name) > 0
    THEN [a_name_info EXCEPT
            !.fs_dir = tsk_fs_dir_add(@, a_name_info.fs_name),
            !.origin = Append(@, OriginOf(a_name_info.opener))]
    ELSE a_name_info

\* exfatfs_add_name_to_dir_and_reset_info(a_name_info)
exfatfs_add_name_to_dir_and_reset_info(a_name_info) ==
    exfatfs_reset_name_info(
        IF strlen(a_name_info.fs_name.name) > 0
        THEN [a_name_info EXCEPT
                !.fs_dir = tsk_fs_dir_add(@, a_name_info.fs_name),
                !.origin = Append(@, OriginOf(a_name_info.opener))]
        ELSE a_name_info)

\* A file entry handler that does not save the previous name first
\* (mutation of exfats_parse_file_dentry).
parse_file_dentry_WithoutSave(a_name_info, a_dentry, a_inum) ==
    LET filled ==
            [a_name_info EXCEPT
                !.last_dentry_type = a_dentry.entry_type,
                !.expected_secondary_entry_count = a_dentry.secondary_entries_count,
                !.expected_check_sum = a_dentry.check_sum,
                !.fs_name.type = IF a_dentry.attr_directory
                                 THEN TSK_FS_NAME_TYPE_DIR
                                 ELSE TSK_FS_NAME_TYPE_REG,
                !.fs_name.flags =
                    IF a_name_info.sector_is_allocated # 0
                       /\ a_dentry.entry_type = EXFATFS_DIR_ENTRY_TYPE_FILE
                    THEN TSK_FS_NAME_FLAG_ALLOC
                    ELSE TSK_FS_NAME_FLAG_UNALLOC,
                !.fs_name.meta_addr = a_inum,
                !.opener = OpenerOf(a_name_info, a_dentry, a_inum)]
    IN  exfatfs_update_file_entry_set_checksum(filled, a_dentry)

\* A file entry handler that derives the allocation flag from the sector
\* alone, whatever the in-use bit of the entry (mutation of
\* exfats_parse_file_dentry).
parse_file_dentry_FlagBySectorOnly(a_name_info, a_dentry, a_inum) ==
    LET saved == exfatfs_add_name_to_dir_and_reset_info(a_name_info)
        filled ==
            [saved EXCEPT
                !.last_dentry_type = a_dentry.entry_type,
                !.expected_secondary_entry_count = a_dentry.secondary_entries_count,
                !.expected_check_sum = a_dentry.check_sum,
                !.fs_name.type = IF a_dentry.attr_directory
                                 THEN TSK_FS_NAME_TYPE_DIR
                                 ELSE TSK_FS_NAME_TYPE_REG,
                !.fs_name.flags =
                    IF saved.sector_is_allocated # 0
                    THEN TSK_FS_NAME_FLAG_ALLOC
                    ELSE TSK_FS_NAME_FLAG_UNALLOC,
                !.fs_name.meta_addr = a_inum,
                !.opener = OpenerOf(a_name_info, a_dentry, a_inum)]
    IN  exfatfs_update_file_entry_set_checksum(filled, a_dentry)

\* exfats_parse_file_dentry(a_name_info, a_dentry, a_inum)
exfats_parse_file_dentry(a_name_info, a_dentry, a_inum) ==
    LET saved == exfatfs_add_name_to_dir_and_reset_info(a_name_info)
        filled ==
            [saved EXCEPT
                !.last_dentry_type = a_dentry.entry_type,
                !.expected_secondary_entry_count = a_dentry.secondary_entries_count,
                !.expected_check_sum = a_dentry.check_sum,
                !.fs_name.type = IF a_dentry.attr_directory
                                 THEN TSK_FS_NAME_TYPE_DIR
                                 ELSE TSK_FS_NAME_TYPE_REG,
                !.fs_name.flags =
                    IF saved.sector_is_allocated # 0
                       /\ a_dentry.entry_type = EXFATFS_DIR_ENTRY_TYPE_FILE
                    THEN TSK_FS_NAME_FLAG_ALLOC
                    ELSE TSK_FS_NAME_FLAG_UNALLOC,
                !.fs_name.meta_addr = a_inum,
                !.opener = OpenerOf(a_name_info, a_dentry, a_inum)]
    IN  exfatfs_update_file_entry_set_checksum(filled, a_dentry)

\* A stream entry handler without the test of the preceding entry type
\* (mutation of exfats_parse_file_stream_dentry).
parse_file_stream_dentry_AnySequence(a_name_info, a_dentry, a_inum) ==
    IF \/ /\ a_name_info.last_dentry_type = EXFATFS_DIR_ENTRY_TYPE_FILE
          /\ a_dentry.entry_type = EXFATFS_DIR_ENTRY_TYPE_DELETED_FILE_STREAM
       \/ /\ a_name_info.last_dentry_type = EXFATFS_DIR_ENTRY_TYPE_DELETED_FILE
          /\ a_dentry.entry_type = EXFATFS_DIR_ENTRY_TYPE_FILE_STREAM
    THEN exfatfs_add_name_to_dir_and_reset_info(a_name_info)
    ELSE LET summed ==
                exfatfs_update_file_entry_set_checksum(
                    [a_name_info EXCEPT
                        !.last_dentry_type = a_dentry.entry_type,
                        !.expected_name_length = a_dentry.file_name_length],
                    a_dentry)
             counted ==
                [summed EXCEPT !.actual_secondary_entry_count = (@ + 1) % 256]
         IN  IF counted.actual_secondary_entry_count
                    = counted.expected_secondary_entry_count
             THEN exfatfs_add_name_to_dir_and_reset_info(counted)
             ELSE counted

\* exfats_parse_file_stream_dentry(a_name_info, a_dentry, a_inum)
exfats_parse_file_stream_dentry(a_name_info, a_dentry, a_inum) ==
    IF a_name_info.last_dentry_type # EXFATFS_DIR_ENTRY_TYPE_FILE
       /\ a_name_info.last_dentry_type # EXFATFS_DIR_ENTRY_TYPE_DELETED_FILE
    THEN exfatfs_add_name_to_dir_and_reset_info(a_name_info)
    ELSE IF \/ /\ a_name_info.last_dentry_type = EXFATFS_DIR_ENTRY_TYPE_FILE
               /\ a_dentry.entry_type = EXFATFS_DIR_ENTRY_TYPE_DELETED_FILE_STREAM
            \/ /\ a_name_info.last_dentry_type = EXFATFS_DIR_ENTRY_TYPE_DELETED_FILE
               /\ a_dentry.entry_type = EXFATFS_DIR_ENTRY_TYPE_FILE_STREAM
    THEN exfatfs_add_name_to_dir_and_reset_info(a_name_info)
    ELSE LET summed ==
                exfatfs_update_file_entry_set_checksum(
                    [a_name_info EXCEPT
                        !.last_dentry_type = a_dentry.entry_type,
                        !.expected_name_length = a_dentry.file_name_length],
                    a_dentry)
             counted ==
                [summed EXCEPT !.actual_secondary_entry_count = (@ + 1) % 256]
         IN  IF counted.actual_secondary_entry_count
                    = counted.expected_secondary_entry_count
             THEN exfatfs_add_name_to_dir_and_reset_info(counted)
             ELSE counted

\* num_chars_to_copy of exfats_parse_file_name_dentry: the declared length
\* less the length so far (a size_t, so a negative difference is huge),
\* at most one segment.
NumCharsToCopy(a_name_info) ==
    LET diff == a_name_info.expected_name_length - a_name_info.actual_name_length
    IN  IF diff < 0 \/ diff > EXFATFS_MAX_FILE_NAME_SEGMENT_LENGTH
        THEN EXFATFS_MAX_FILE_NAME_SEGMENT_LENGTH
        ELSE diff

\* The in-use bit of a file, stream or name entry type.
InUse(t) ==
    t \in {EXFATFS_DIR_ENTRY_TYPE_FILE, EXFATFS_DIR_ENTRY_TYPE_FILE_STREAM,
           EXFATFS_DIR_ENTRY_TYPE_FILE_NAME}

\* A test for space that every name segment passes (mutation of
\* EnoughSpace).
EnoughSpace_Always(a_name_info) == TRUE

\* The test of exfats_parse_file_name_dentry for space in the name object.
EnoughSpace(a_name_info) ==
    a_name_info.actual_name_length + NumCharsToCopy(a_name_info)
        < EXFATFS_MAX_NAME_LEN_UTF8 - 1

\* The conversion exfats_parse_file_name_dentry makes of a name entry.
NameSegmentConv(a_name_info, a_dentry) ==
    fatfs_utf16_inode_str_2_utf8(a_dentry.utf16_name_chars,
        NumCharsToCopy(a_name_info), a_name_info.fs_name.name,
        EXFATFS_MAX_NAME_LEN_UTF8)

\* The name info after the copy of a name segment: the conversion, the
\* update of the length and the terminator; unchanged without enough space.
CopyNameSegment(a_name_info, a_dentry) ==
    IF EnoughSpace(a_name_info)
    THEN [a_name_info EXCEPT
            !.actual_name_length = (@ + NumCharsToCopy(a_name_info)) % 256,
            !.fs_name.name =
                Poke(NameSegmentConv(a_name_info, a_dentry).dest,
                     (a_name_info.actual_name_length
                        + NumCharsToCopy(a_name_info)) % 256, 0),
            !.opener.units =
                @ \o SubSeq(a_dentry.utf16_name_chars, 1,
                            Min(NumCharsToCopy(a_name_info),
                                Len(a_dentry.utf16_name_chars)))]
    ELSE a_name_info

\* A name entry handler without the test of the in-use variant (mutation
\* of exfats_parse_file_name_dentry).
parse_file_name_dentry_AnyVariant(a_name_info, a_dentry, a_inum) ==
    IF a_name_info.last_dentry_type \notin (StreamTypes \cup NameTypes)
    THEN exfatfs_add_name_to_dir_and_reset_info(a_name_info)
    ELSE LET typed == [a_name_info EXCEPT !.last_dentry_type = a_dentry.entry_type]
             counted ==
                [CopyNameSegment(typed, a_dentry) EXCEPT
                    !.actual_secondary_entry_count = (@ + 1) % 256]
         IN  IF EnoughSpace(typed) /\ ~NameSegmentConv(typed, a_dentry).ok
             THEN exfatfs_add_name_to_dir_and_reset_info(
                    [typed EXCEPT !.fs_name.name =
                        Poke(NameSegmentConv(typed, a_dentry).dest,
                             typed.actual_name_length, 0)])
             ELSE IF counted.actual_secondary_entry_count
                        = counted.expected_secondary_entry_count
             THEN exfatfs_add_name_to_dir_and_reset_info(counted)
             ELSE counted

\* exfats_parse_file_name_dentry(a_name_info, a_dentry, a_inum)
exfats_parse_file_name_dentry(a_name_info, a_dentry, a_inum) ==
    IF a_name_info.last_dentry_type \notin (StreamTypes \cup NameTypes)
    THEN exfatfs_add_name_to_dir_and_reset_info(a_name_info)
    ELSE IF \/ /\ a_name_info.last_dentry_type \in
                    {EXFATFS_DIR_ENTRY_TYPE_FILE_STREAM,
                     EXFATFS_DIR_ENTRY_TYPE_FILE_NAME}
               /\ a_dentry.entry_type = EXFATFS_DIR_ENTRY_TYPE_DELETED_FILE_NAME
            \/ /\ a_name_info.last_dentry_type \in
                    {EXFATFS_DIR_ENTRY_TYPE_DELETED_FILE_STREAM,
                     EXFATFS_DIR_ENTRY_TYPE_DELETED_FILE_NAME}
               /\ a_dentry.entry_type = EXFATFS_DIR_ENTRY_TYPE_FILE_NAME
    THEN exfatfs_add_name_to_dir_and_reset_info(a_name_info)
    ELSE LET typed == [a_name_info EXCEPT !.last_dentry_type = a_dentry.entry_type]
             counted ==
                [CopyNameSegment(typed, a_dentry) EXCEPT
                    !.actual_secondary_entry_count = (@ + 1) % 256]
         IN  IF EnoughSpace(typed) /\ ~NameSegmentConv(typed, a_dentry).ok
             THEN exfatfs_add_name_to_dir_and_reset_info(
                    [typed EXCEPT !.fs_name.name =
                        Poke(NameSegmentConv(typed, a_dentry).dest,
                             typed.actual_name_length, 0)])
             ELSE IF counted.actual_secondary_entry_count
                        = counted.expected_secondary_entry_count
             THEN exfatfs_add_name_to_dir_and_reset_info(counted)
             ELSE counted

\* const char *tag = " (Volume Label Entry)"
VolumeLabelTag ==
    <<32, 40, 86, 111, 108, 117, 109, 101, 32, 76, 97, 98, 101, 108, 32,
      69, 110, 116, 114, 121, 41>>

\* exfats_parse_vol_label_dentry(a_name_info, a_dentry, a_inum)
exfats_parse_vol_label_dentry(a_name_info, a_dentry, a_inum) ==
    LET saved == exfatfs_add_name_to_dir_and_reset_info(a_name_info)
        typed == [saved EXCEPT !.last_dentry_type = a_dentry.entry_type,
                               !.opener = OpenerOf(a_name_info, a_dentry, a_inum)]
        conv ==
            fatfs_utf16_inode_str_2_utf8(a_dentry.volume_label,
                a_dentry.utf16_char_count + 1, typed.fs_name.name,
                EXFATFS_MAX_NAME_LEN_UTF8)
        actual_name_length ==
            (typed.actual_name_length + a_dentry.utf16_char_count) % 256
        cut == Poke(conv.dest, actual_name_length, 0)
        tagged ==
            IF actual_name_length + Len(VolumeLabelTag) < EXFATFS_MAX_NAME_LEN_UTF8
            THEN strcat(cut, VolumeLabelTag)
            ELSE cut
    IN  IF a_dentry.entry_type = EXFATFS_DIR_ENTRY_TYPE_VOLUME_LABEL_EMPTY
        THEN typed
        ELSE IF ~conv.ok
        THEN exfatfs_reset_name_info([typed EXCEPT !.fs_name.name = conv.dest])
        ELSE exfatfs_add_name_to_dir_and_reset_info(
                [typed EXCEPT !.actual_name_length = actual_name_length,
                              !.fs_name.name = tagged,
                              !.fs_name.meta_addr = a_inum])

\* The virtual file names of the special entries, one fixed string per type.
VirtFilename(t) ==
    CASE t = EXFATFS_DIR_ENTRY_TYPE_VOLUME_GUID -> <<36, 71>>
      [] t = EXFATFS_DIR_ENTRY_TYPE_ALLOC_BITMAP -> <<36, 66>>
      [] t = EXFATFS_DIR_ENTRY_TYPE_UPCASE_TABLE -> <<36, 85>>
      [] t = EXFATFS_DIR_ENTRY_TYPE_TEX_FAT -> <<36, 84>>
      [] t = EXFATFS_DIR_ENTRY_TYPE_ACT -> <<36, 65>>

\* The assertion on the entry type at the head of
\* exfats_parse_special_file_dentry.
SpecialFileAssertion(a_dentry) ==
    a_dentry.entry_type \in
        {EXFATFS_DIR_ENTRY_TYPE_VOLUME_GUID, EXFATFS_DIR_ENTRY_TYPE_ALLOC_BITMAP,
         EXFATFS_DIR_ENTRY_TYPE_UPCASE_TABLE, EXFATFS_DIR_ENTRY_TYPE_ACT}

\* exfats_parse_special_file_dentry(a_name_info, a_dentry, a_inum), past
\* its assertions.
exfats_parse_special_file_dentry(a_name_info, a_dentry, a_inum) ==
    LET saved == exfatfs_add_name_to_dir_and_reset_info(a_name_info)
        named ==
            [saved EXCEPT
                !.fs_name.meta_addr = a_inum,
                !.last_dentry_type = a_dentry.entry_type,
                !.opener = OpenerOf(a_name_info, a_dentry, a_inum),
                !.fs_name.name =
                    IF a_dentry.entry_type \in SpecialTypes
                    THEN strcpy(@, VirtFilename(a_dentry.entry_type))
                    ELSE @]
    IN  exfatfs_add_name_to_dir_and_reset_info(named)

(* ------------------------ exfatfs_dent_parse_buf ----------------------- *)
VARIABLES
    pc,                   \* where exfatfs_dent_parse_buf stands
    build,                \* what the run has shown of the build: "any" while
                          \* no failing assert() was met, "ndebug" once one
                          \* was passed (assert() is compiled away)
    null_arg,             \* the pointer argument that is NULL, or "none"
    a_buf_len,            \* the buffer length argument, in bytes
    num_sectors,
    sector_index,
    base_inum_of_sector,
    dentry_index,
    dentry,               \* the read pointer into a_buf, in entries
    current_dentry,
    current_inum,
    dentry_type,
    entries_count,
    invalid_entries_count,
    is_corrupt_dir,
    name_info,
    retval,               \* the value returned, NoRetval before the return
    alloc_log,            \* history: fatfs_is_sectalloc's answer per sector index
    do_basic_tests_only,  \* the hint exfatfs_is_dentry got for the entry
                          \* under dispatch (FALSE when there is none)
    lead                  \* history: how many of the first four entries the
                          \* switch handled, and how many of them were no
                          \* entries

vars ==
    <<pc, build, null_arg, a_buf_len, num_sectors, sector_index,
      base_inum_of_sector, dentry_index, dentry, current_dentry, current_inum,
      dentry_type, entries_count, invalid_entries_count, is_corrupt_dir,
      name_info, retval, alloc_log, do_basic_tests_only, lead>>

\* The history of the first four entries, and its update by the switch on an
\* entry of type a_dentry_type.
NoLead == [seen |-> 0, invalid |-> 0]
LeadAfter(a_lead, a_dentry_type) ==
    IF a_lead.seen < 4
    THEN [seen |-> a_lead.seen + 1,
          invalid |-> a_lead.invalid
                        + IF a_dentry_type \notin
                                (FileTypes \cup StreamTypes \cup NameTypes
                                    \cup LabelTypes \cup SpecialTypes)
                          THEN 1 ELSE 0]
    ELSE a_lead

PointerArgs == {"a_fatfs", "a_fs_dir", "a_buf", "a_sector_addrs"}
\* Buffer lengths tried: negative, zero, and NumSectors whole sectors.
BufLens == {0 - ssize, 0, NumSectors * ssize}
\* Sector addresses tried for a_sector_addrs[i]: the i-th sector of the
\* directory (its last sector again for the sectors of a buffer longer than
\* the directory), a sector whose entries straddle last_inum, and a sector
\* wholly beyond it.
SectorAddrs(i) == {Min(i, MaxSectors - 1), MaxSectors, MaxSectors + 1}
\* Answers of fatfs_is_sectalloc: allocated, unallocated, error.
SectAllocResults == {1, 0, -1}

Init ==
    /\ pc = "call"
    /\ build = "any"
    /\ null_arg \in PointerArgs \cup {"none"}
    /\ a_buf_len \in BufLens
    /\ num_sectors = 0
    /\ sector_index = 0
    /\ base_inum_of_sector = 0
    /\ dentry_index = 0
    /\ dentry = 0
    /\ current_dentry = NoDentry
    /\ current_inum = 0
    /\ dentry_type = EXFATFS_DIR_ENTRY_TYPE_NONE
    /\ entries_count = 0
    /\ invalid_entries_count = 0
    /\ is_corrupt_dir = FALSE
    /\ name_info = InitNameInfo
    /\ retval = NoRetval
    /\ alloc_log = << >>
    /\ do_basic_tests_only = FALSE
    /\ lead = NoLead

\* return a_retval
Return(a_retval) ==
    /\ pc' = "done"
    /\ retval' = a_retval

\* A failed assert() in a build that keeps assertions: the process aborts.
Abort ==
    /\ pc' = "abort"
    /\ retval' = retval

\* The buffer length check of exfatfs_dent_parse_buf: TRUE when the length is
\* rejected.
InvalidBufLen(len) == len < 0

\* assert(cond) in a run whose build is not yet known to be NDEBUG: a build
\* that keeps assertions aborts on a false condition; a build that compiles
\* them away goes on, and the run is from then on one of an NDEBUG build.
AssertAborts(cond) == ~cond /\ build = "any" /\ Abort
AssertPasses(cond) ==
    build' = IF cond THEN build ELSE "ndebug"

\* Entry of exfatfs_dent_parse_buf: the argument checks and the set-up of
\* name_info, up to the head of the sector loop.
Enter ==
    /\ pc = "call"
    /\ UNCHANGED <<null_arg, a_buf_len, sector_index, base_inum_of_sector,
                   dentry_index, dentry, current_dentry, current_inum, dentry_type,
                   entries_count, invalid_entries_count, is_corrupt_dir, name_info,
                   alloc_log, do_basic_tests_only, lead>>
    /\ IF null_arg # "none"
       THEN Return(TSK_ERR) /\ UNCHANGED <<num_sectors, build>>
       ELSE \/ AssertAborts(a_buf_len > 0) /\ UNCHANGED <<num_sectors, build>>
            \/ /\ AssertPasses(a_buf_len > 0)
               /\ IF InvalidBufLen(a_buf_len)
                  THEN Return(TSK_ERR) /\ UNCHANGED num_sectors
                  ELSE \E allocated \in BOOLEAN :
                        IF ~allocated
                        THEN Return(TSK_ERR) /\ UNCHANGED num_sectors
                        ELSE /\ num_sectors' = a_buf_len \div ssize
                             /\ pc' = "sector"
                             /\ retval' = retval

\* One pass through the head of the sector loop: the inode address of the
\* sector, its range check, and the allocation status look-up.
NextSector ==
    /\ pc = "sector"
    /\ sector_index < num_sectors
    /\ UNCHANGED <<build, null_arg, a_buf_len, num_sectors, dentry, current_dentry,
                   current_inum, dentry_type, entries_count, invalid_entries_count,
                   is_corrupt_dir, do_basic_tests_only, lead>>
    /\ \E addr \in SectorAddrs(sector_index), status \in SectAllocResults :
        /\ base_inum_of_sector' = FATFS_SECT_2_INODE(addr)
        /\ IF FATFS_SECT_2_INODE(addr) > last_inum
           THEN /\ Return(TSK_COR)
                /\ UNCHANGED <<sector_index, dentry_index, name_info, alloc_log>>
           ELSE /\ name_info' = [name_info EXCEPT !.sector_is_allocated = status]
                /\ alloc_log' = Append(alloc_log, status)
                /\ retval' = retval
                /\ IF status = -1
                   THEN /\ sector_index' = sector_index + 1
                        /\ pc' = "sector"
                        /\ UNCHANGED dentry_index
                   ELSE /\ dentry_index' = 0
                        /\ pc' = "entry"
                        /\ UNCHANGED sector_index

\* A head of the entry loop body that saves the name under assembly before
\* it returns on an inode address out of range (mutation of ReadEntry).
ReadEntry_SaveOnRangeFailure(fields) ==
    /\ pc = "entry"
    /\ UNCHANGED <<build, null_arg, a_buf_len, num_sectors, sector_index,
                   base_inum_of_sector, dentry_index, dentry,
                   invalid_entries_count, is_corrupt_dir, alloc_log, lead>>
    /\ entries_count' = entries_count + 1
    /\ current_inum' = base_inum_of_sector + dentry_index
    /\ IF ~fatfs_is_inum_in_range(base_inum_of_sector + dentry_index)
       THEN /\ Return(TSK_ERR)
            /\ name_info' = exfatfs_add_name_to_dir_and_reset_info(name_info)
            /\ UNCHANGED <<current_dentry, dentry_type, do_basic_tests_only>>
       ELSE \E f \in fields :
                /\ current_dentry' = DentryAt(dentry, f)
                /\ do_basic_tests_only' =
                        (~is_corrupt_dir /\ name_info.sector_is_allocated # 0)
                /\ dentry_type' =
                        exfatfs_is_dentry(DentryAt(dentry, f),
                            ~is_corrupt_dir /\ name_info.sector_is_allocated # 0)
                /\ pc' = "dispatch"
                /\ retval' = retval
                /\ name_info' = name_info

\* The head of the entry loop body: the entry count, the inode address of
\* the entry and its range check, and the classification of the entry the
\* read pointer stands on, whose fields are among fields.
ReadEntry(fields) ==
    /\ pc = "entry"
    /\ UNCHANGED <<build, null_arg, a_buf_len, num_sectors, sector_index,
                   base_inum_of_sector, dentry_index, dentry,
                   invalid_entries_count, is_corrupt_dir, name_info, alloc_log,
                   lead>>
    /\ entries_count' = entries_count + 1
    /\ current_inum' = base_inum_of_sector + dentry_index
    /\ IF ~fatfs_is_inum_in_range(base_inum_of_sector + dentry_index)
       THEN /\ Return(TSK_ERR)
            /\ UNCHANGED <<current_dentry, dentry_type, do_basic_tests_only>>
       ELSE \E f \in fields :
                /\ current_dentry' = DentryAt(dentry, f)
                /\ do_basic_tests_only' =
                        (~is_corrupt_dir /\ name_info.sector_is_allocated # 0)
                /\ dentry_type' =
                        exfatfs_is_dentry(DentryAt(dentry, f),
                            ~is_corrupt_dir /\ name_info.sector_is_allocated # 0)
                /\ pc' = "dispatch"
                /\ retval' = retval

NextEntry == ReadEntry(DentryFields)

\* The handler the switch on dentry_type calls.
Handle(a_name_info, a_dentry_type, a_dentry, a_inum) ==
    CASE a_dentry_type \in FileTypes ->
            exfats_parse_file_dentry(a_name_info, a_dentry, a_inum)
      [] a_dentry_type \in StreamTypes ->
            exfats_parse_file_stream_dentry(a_name_info, a_dentry, a_inum)
      [] a_dentry_type \in NameTypes ->
            exfats_parse_file_name_dentry(a_name_info, a_dentry, a_inum)
      [] a_dentry_type \in LabelTypes ->
            exfats_parse_vol_label_dentry(a_name_info, a_dentry, a_inum)
      [] a_dentry_type \in SpecialTypes ->
            exfats_parse_special_file_dentry(a_name_info, a_dentry, a_inum)
      [] OTHER -> exfatfs_add_name_to_dir_and_reset_info(a_name_info)

\* A flag set by any four bytes-that-are-no-entry, wherever they are in the
\* buffer (mutation of CorruptDirAfter).
CorruptDirAfter_AnyFour(a_entries_count, a_invalid_entries_count, a_is_corrupt_dir) ==
    IF a_invalid_entries_count = 4
    THEN TRUE
    ELSE a_is_corrupt_dir

\* The directory-looks-corrupt flag after the switch handled bytes that are
\* no entry, the counts being those after their increments.
CorruptDirAfter(a_entries_count, a_invalid_entries_count, a_is_corrupt_dir) ==
    IF a_entries_count = 4 /\ a_invalid_entries_count = 4
    THEN TRUE
    ELSE a_is_corrupt_dir

\* The switch on dentry_type and the step of the entry loop.
Dispatch ==
    /\ pc = "dispatch"
    /\ UNCHANGED <<null_arg, a_buf_len, num_sectors, base_inum_of_sector,
                   entries_count, alloc_log>>
    /\ LET asserted ==
            dentry_type \in SpecialTypes => SpecialFileAssertion(current_dentry)
       IN  \/ /\ AssertAborts(asserted)
              /\ UNCHANGED <<build, sector_index, dentry_index, dentry,
                             current_dentry, current_inum, dentry_type,
                             invalid_entries_count, is_corrupt_dir, name_info,
                             do_basic_tests_only, lead>>
           \/ /\ AssertPasses(asserted)
              /\ name_info' =
                    Handle(name_info, dentry_type, current_dentry, current_inum)
              \* current_dentry, current_inum and dentry_type are local to the
              \* loop body and end with it.
              /\ current_dentry' = NoDentry
              /\ current_inum' = 0
              /\ dentry_type' = EXFATFS_DIR_ENTRY_TYPE_NONE
              /\ do_basic_tests_only' = FALSE
              /\ lead' = LeadAfter(lead, dentry_type)
              /\ IF dentry_type \notin
                        (FileTypes \cup StreamTypes \cup NameTypes \cup LabelTypes
                            \cup SpecialTypes)
                 THEN /\ invalid_entries_count' = invalid_entries_count + 1
                      /\ is_corrupt_dir' =
                            CorruptDirAfter(entries_count,
                                invalid_entries_count + 1, is_corrupt_dir)
                 ELSE UNCHANGED <<invalid_entries_count, is_corrupt_dir>>
              /\ dentry' = dentry + 1
              /\ retval' = retval
              /\ dentry_index' = dentry_index + 1
              /\ IF dentry_index + 1 < dentry_cnt_se
                 THEN /\ pc' = "entry"
                      /\ UNCHANGED sector_index
                 ELSE /\ sector_index' = sector_index + 1
                      /\ pc' = "sector"

\* A return after the sector loop that does not save the last name
\* (mutation of Finish).
Finish_WithoutSave ==
    /\ pc = "sector"
    /\ sector_index >= num_sectors
    /\ UNCHANGED <<build, null_arg, a_buf_len, num_sectors, sector_index,
                   base_inum_of_sector, dentry_index, dentry, current_dentry,
                   current_inum, dentry_type, entries_count,
                   invalid_entries_count, is_corrupt_dir, alloc_log,
                   do_basic_tests_only, lead>>
    /\ name_info' = exfatfs_reset_name_info(name_info)
    /\ Return(TSK_OK)

\* After the sector loop: the last name is saved and the parse returns.
Finish ==
    /\ pc = "sector"
    /\ sector_index >= num_sectors
    /\ UNCHANGED <<build, null_arg, a_buf_len, num_sectors, sector_index,
                   base_inum_of_sector, dentry_index, dentry, current_dentry,
                   current_inum, dentry_type, entries_count,
                   invalid_entries_count, is_corrupt_dir, alloc_log,
                   do_basic_tests_only, lead>>
    /\ name_info' = exfatfs_add_name_to_dir_and_reset_info(name_info)
    /\ Return(TSK_OK)

Next == Enter \/ NextSector \/ NextEntry \/ Dispatch \/ Finish

Spec == Init /\ [][Next]_vars

\* The parses of a buffer of MaxSectors sectors, with valid arguments, in
\* which the allocation status of the first sector cannot be looked up.
InitSkip ==
    /\ pc = "call"
    /\ build = "any"
    /\ null_arg = "none"
    /\ a_buf_len = MaxSectors * ssize
    /\ num_sectors = 0
    /\ sector_index = 0
    /\ base_inum_of_sector = 0
    /\ dentry_index = 0
    /\ dentry = 0
    /\ current_dentry = NoDentry
    /\ current_inum = 0
    /\ dentry_type = EXFATFS_DIR_ENTRY_TYPE_NONE
    /\ entries_count = 0
    /\ invalid_entries_count = 0
    /\ is_corrupt_dir = FALSE
    /\ name_info = InitNameInfo
    /\ retval = NoRetval
    /\ alloc_log = << >>
    /\ do_basic_tests_only = FALSE
    /\ lead = NoLead

FirstSectorUnreadable == alloc_log # << >> => alloc_log[1] = -1

\* The head of the sector loop where fatfs_is_sectalloc fails for the first
\* sector of the buffer.
NextSectorSkip == NextSector /\ FirstSectorUnreadable'

NextSkip == Enter \/ NextSectorSkip \/ NextEntry \/ Dispatch \/ Finish

SpecSkip == InitSkip /\ [][NextSkip]_vars

\* The parses of a buffer of MaxSectors sectors, with valid arguments,
\* whose first four entries read are either no entries or allocation
\* control table entries.
LeadFields ==
    JunkFields
        \cup {[BlankFields EXCEPT !.entry_type = EXFATFS_DIR_ENTRY_TYPE_ACT]}

NextEntryLead ==
    ReadEntry(IF entries_count < 4 THEN LeadFields ELSE DentryFields)

NextLead == Enter \/ NextSector \/ NextEntryLead \/ Dispatch \/ Finish

SpecLead == InitSkip /\ [][NextLead]_vars

\* The check sum update on its own: any of the starting values, any file,
\* stream or name entry, the file entries with any of the declared check
\* sums.
CheckSumStarts == {0, 1, 4660, 32768, 65535}
DeclaredCheckSums == {0, 4660, 65535}
CheckSumEntries ==
    {[f EXCEPT !.check_sum = c] : f \in FileFields, c \in DeclaredCheckSums}
        \cup StreamFields \cup NameFields

InitCheckSum ==
    /\ pc = "checksum"
    /\ build = "any"
    /\ null_arg = "none"
    /\ a_buf_len = NumSectors * ssize
    /\ num_sectors = NumSectors
    /\ sector_index = 0
    /\ base_inum_of_sector = FATFS_FIRSTINO
    /\ dentry_index = 0
    /\ dentry = 0
    /\ current_dentry \in {DentryAt(0, f) : f \in CheckSumEntries}
    /\ current_inum = FATFS_FIRSTINO
    /\ dentry_type = current_dentry.entry_type
    /\ entries_count = 1
    /\ invalid_entries_count = 0
    /\ is_corrupt_dir = FALSE
    /\ \E v \in CheckSumStarts :
            name_info = [InitNameInfo EXCEPT !.actual_check_sum = v]
    /\ retval = NoRetval
    /\ alloc_log = <<0>>
    /\ do_basic_tests_only = FALSE
    /\ lead = NoLead

\* A call of exfatfs_update_file_entry_set_checksum. Where an addition
\* overflows the int the behaviour is undefined: the build either wraps the
\* sum, or traps on the overflow and the run ends.
UpdateCheckSum ==
    /\ pc = "checksum"
    /\ \/ /\ name_info' =
                exfatfs_update_file_entry_set_checksum(name_info, current_dentry)
          /\ pc' = "checksummed"
       \/ /\ CheckSumOverflows(name_info, current_dentry)
          /\ name_info' = name_info
          /\ pc' = "abort"
    /\ UNCHANGED <<build, null_arg, a_buf_len, num_sectors, sector_index,
                   base_inum_of_sector, dentry_index, dentry, current_dentry,
                   current_inum, dentry_type, entries_count,
                   invalid_entries_count, is_corrupt_dir, retval, alloc_log,
                   do_basic_tests_only, lead>>

SpecCheckSum == InitCheckSum /\ [][UpdateCheckSum]_vars

\* The parses of a buffer that holds one file entry set whose name is longer
\* than the name object: a file entry, a stream entry, and as many name
\* entries as fill the EXFATFS_MAX_NAME_LEN_UTF8 bytes of the name, in
\* allocated sectors of the directory.
LongNameSegments ==
    EXFATFS_MAX_NAME_LEN_UTF8 \div EXFATFS_MAX_FILE_NAME_SEGMENT_LENGTH
LongNameSectors == (LongNameSegments + 2) \div dentry_cnt_se
\* Declared name lengths the name object cannot hold with its terminator.
LongNameLengths == {EXFATFS_MAX_NAME_LEN_UTF8, EXFATFS_MAX_NAME_LEN_UTF8 + 1}

\* The fields of the entry at position pos of the buffer.
LongNameFields(pos) ==
    IF pos = 0
    THEN {[BlankFields EXCEPT !.entry_type = EXFATFS_DIR_ENTRY_TYPE_FILE,
                              !.secondary_entries_count = n,
                              !.check_sum = c, !.attr_directory = d] :
            n \in {LongNameSegments + 1, LongNameSegments + 2},
            c \in CheckSums, d \in BOOLEAN}
    ELSE IF pos = 1
    THEN {[BlankFields EXCEPT !.entry_type = EXFATFS_DIR_ENTRY_TYPE_FILE_STREAM,
                              !.file_name_length = l] : l \in LongNameLengths}
    ELSE {[BlankFields EXCEPT !.entry_type = EXFATFS_DIR_ENTRY_TYPE_FILE_NAME,
                              !.utf16_name_chars = u] :
            u \in IF pos = LongNameSegments + 1
                  THEN {<<65, 66>>, <<67, 233>>}
                  ELSE {<<65, 66>>}}

InitLongName ==
    /\ pc = "call"
    /\ build = "any"
    /\ null_arg = "none"
    /\ a_buf_len = LongNameSectors * ssize
    /\ num_sectors = 0
    /\ sector_index = 0
    /\ base_inum_of_sector = 0
    /\ dentry_index = 0
    /\ dentry = 0
    /\ current_dentry = NoDentry
    /\ current_inum = 0
    /\ dentry_type = EXFATFS_DIR_ENTRY_TYPE_NONE
    /\ entries_count = 0
    /\ invalid_entries_count = 0
    /\ is_corrupt_dir = FALSE
    /\ name_info = InitNameInfo
    /\ retval = NoRetval
    /\ alloc_log = << >>
    /\ do_basic_tests_only = FALSE
    /\ lead = NoLead

\* The head of the sector loop for an allocated sector of the directory.
NextSectorLongName ==
    NextSector /\ pc' = "entry" /\ name_info'.sector_is_allocated = 1

NextEntryLongName == ReadEntry(LongNameFields(dentry))

NextLongName ==
    Enter \/ NextSectorLongName \/ NextEntryLongName \/ Dispatch \/ Finish

SpecLongName == InitLongName /\ [][NextLongName]_vars

\* The parses of a buffer of MaxSectors sectors, with valid arguments, that
\* holds allocation control table entries and the entries of an in-use
\* file entry set of three secondary entries.
HardFailureFields ==
    {[BlankFields EXCEPT !.entry_type = EXFATFS_DIR_ENTRY_TYPE_ACT],
     [BlankFields EXCEPT !.entry_type = EXFATFS_DIR_ENTRY_TYPE_FILE,
                         !.secondary_entries_count = MaxSecondaryCount],
     [BlankFields EXCEPT !.entry_type = EXFATFS_DIR_ENTRY_TYPE_FILE_STREAM,
                         !.file_name_length = MaxNameLength],
     [BlankFields EXCEPT !.entry_type = EXFATFS_DIR_ENTRY_TYPE_FILE_NAME,
                         !.utf16_name_chars = <<65, 66>>]}

NextEntryHardFailure == ReadEntry(HardFailureFields)

NextHardFailure ==
    Enter \/ NextSector \/ NextEntryHardFailure \/ Dispatch \/ Finish

SpecHardFailure == InitSkip /\ [][NextHardFailure]_vars

\* The parses of a buffer of MaxSectors sectors, with valid arguments, that
\* holds the entries of an in-use file entry set whose name takes two name
\* entries, among them a name entry whose second code unit cannot be
\* converted.
BadNameFields ==
    {[BlankFields EXCEPT !.entry_type = EXFATFS_DIR_ENTRY_TYPE_FILE,
                         !.secondary_entries_count = MaxSecondaryCount + 1],
     [BlankFields EXCEPT !.entry_type = EXFATFS_DIR_ENTRY_TYPE_FILE_STREAM,
                         !.file_name_length =
                            2 * EXFATFS_MAX_FILE_NAME_SEGMENT_LENGTH],
     [BlankFields EXCEPT !.entry_type = EXFATFS_DIR_ENTRY_TYPE_FILE_NAME,
                         !.utf16_name_chars = <<65, 66>>],
     [BlankFields EXCEPT !.entry_type = EXFATFS_DIR_ENTRY_TYPE_FILE_NAME,
                         !.utf16_name_chars = <<68, BadUnit>>]}

NextEntryBadName == ReadEntry(BadNameFields)

NextBadName == Enter \/ NextSector \/ NextEntryBadName \/ Dispatch \/ Finish

SpecBadName == InitSkip /\ [][NextBadName]_vars

\* The parses of a buffer of MaxSectors sectors, with valid arguments, that
\* holds the entries of an in-use file entry set with a name of one name
\* entry, whose file entry declares either a check sum that differs from the
\* check sum of the set or the check sum the parser computes for the set.
DeclaredSetFile(c) ==
    [BlankFields EXCEPT !.entry_type = EXFATFS_DIR_ENTRY_TYPE_FILE,
                        !.secondary_entries_count = 2, !.check_sum = c]
DeclaredSetStream ==
    [BlankFields EXCEPT !.entry_type = EXFATFS_DIR_ENTRY_TYPE_FILE_STREAM,
                        !.file_name_length =
                            EXFATFS_MAX_FILE_NAME_SEGMENT_LENGTH]
DeclaredSetName ==
    [BlankFields EXCEPT !.entry_type = EXFATFS_DIR_ENTRY_TYPE_FILE_NAME,
                        !.utf16_name_chars = <<65, 66>>]

\* The check sum the handlers compute for that set: the file entry and the
\* stream entry are folded in, from zero.
ComputedSetCheckSum ==
    exfatfs_update_file_entry_set_checksum(
        exfatfs_update_file_entry_set_checksum(
            InitNameInfo, DentryAt(0, DeclaredSetFile(0))),
        DentryAt(1, DeclaredSetStream)).actual_check_sum

DeclaredFields ==
    {DeclaredSetFile(c) : c \in CheckSums \cup {ComputedSetCheckSum}}
        \cup {DeclaredSetStream, DeclaredSetName, BlankFields}

NextEntryDeclared == ReadEntry(DeclaredFields)

NextDeclared == Enter \/ NextSector \/ NextEntryDeclared \/ Dispatch \/ Finish

SpecDeclared == InitSkip /\ [][NextDeclared]_vars

(* ======================= properties of the parser ==================== *)
\* The entry under dispatch is a stream entry the stream handler accepts:
\* it follows a file entry of the same in-use variant.
StreamAccepted ==
    /\ pc = "dispatch"
    /\ dentry_type \in StreamTypes
    /\ name_info.last_dentry_type \in FileTypes
    /\ InUse(name_info.last_dentry_type) = InUse(current_dentry.entry_type)

\* The entry under dispatch is a name entry in sequence: it follows a stream
\* or name entry.
NameInSequence ==
    /\ pc = "dispatch"
    /\ dentry_type \in NameTypes
    /\ name_info.last_dentry_type \in (StreamTypes \cup NameTypes)

\* ... and the name handler accepts it: same in-use variant, and the
\* conversion of its segment does not fail.
NameAccepted ==
    /\ NameInSequence
    /\ InUse(name_info.last_dentry_type) = InUse(current_dentry.entry_type)
    /\ EnoughSpace(name_info) => NameSegmentConv(name_info, current_dentry).ok

\* The step is the dispatch of the entry (not the abort on a failed assert).
Dispatched == pc = "dispatch" /\ pc' # "abort"

\* The accumulator is closed: the state exfatfs_reset_name_info leaves.
Closed(a_name_info) ==
    /\ a_name_info.last_dentry_type = EXFATFS_DIR_ENTRY_TYPE_NONE
    /\ a_name_info.expected_secondary_entry_count = 0
    /\ a_name_info.actual_secondary_entry_count = 0
    /\ a_name_info.expected_check_sum = 0
    /\ a_name_info.actual_check_sum = 0
    /\ a_name_info.expected_name_length = 0
    /\ a_name_info.actual_name_length = 0
    /\ strlen(a_name_info.fs_name.name) = 0
    /\ a_name_info.fs_name.meta_addr = 0
    /\ a_name_info.fs_name.type = TSK_FS_NAME_TYPE_UNDEF
    /\ a_name_info.fs_name.flags = TSK_FS_NAME_FLAG_ALLOC

\* A file entry set is open: the name under assembly was started by a file
\* entry and entries were accepted up to the last one.
FileSetOpen ==
    /\ name_info.opener.entry_type \in FileTypes
    /\ name_info.last_dentry_type \in (FileTypes \cup StreamTypes \cup NameTypes)

\* The entry under dispatch is the last secondary entry of a file entry set
\* fed in legal order: it is accepted and brings the count of secondary
\* entries to the count the file entry declared.
CompletesFileSet ==
    /\ FileSetOpen
    /\ StreamAccepted \/ NameAccepted
    /\ name_info.actual_secondary_entry_count + 1
            = name_info.expected_secondary_entry_count

\* The pending name once the entry under dispatch has been accepted.
PendingNameAfter ==
    IF dentry_type \in NameTypes
    THEN CStr(CopyNameSegment(name_info, current_dentry).fs_name.name)
    ELSE CStr(name_info.fs_name.name)

\* The name record a file entry set must yield, by its file entry.
FileSetRecord(opener, name) ==
    [name |-> name,
     meta_addr |-> opener.inum,
     type |-> IF opener.attr_directory
              THEN TSK_FS_NAME_TYPE_DIR ELSE TSK_FS_NAME_TYPE_REG,
     flags |-> IF opener.entry_type = EXFATFS_DIR_ENTRY_TYPE_FILE
                  /\ opener.sector_is_allocated = 1
               THEN TSK_FS_NAME_FLAG_ALLOC ELSE TSK_FS_NAME_FLAG_UNALLOC]

\* C1 as claimed: for every N, the last of the N secondary entries of a
\* file entry set fed in legal order appends exactly one name record.
C1_EveryCompleteSetEmitsOne ==
    [][(CompletesFileSet /\ Dispatched)
            => Len(name_info'.fs_dir) = Len(name_info.fs_dir) + 1]_vars

\* C1 as amended: when the last of the N declared secondary entries of a
\* file entry set is accepted, no record was added for the set before; one
\* record is added if the pending name is then non-empty and none if it is
\* empty (as it is for N = 1, a stream entry alone); the record carries the
\* pending name, the inode address and the kind of the file entry and the
\* allocation flag derived from the file entry; the accumulator is closed.
C1_CompleteSetEmitsPendingName ==
    [][(CompletesFileSet /\ Dispatched) =>
        /\ \A i \in 1..Len(name_info.origin) :
                name_info.origin[i].pos # name_info.opener.pos
        /\ name_info'.fs_dir =
                IF PendingNameAfter # << >>
                THEN Append(name_info.fs_dir,
                            FileSetRecord(name_info.opener, PendingNameAfter))
                ELSE name_info.fs_dir
        /\ dentry_type \in StreamTypes => name_info'.fs_dir = name_info.fs_dir
        /\ Closed(name_info')]_vars

\* C1 witness: a directory file entry in an allocated sector, followed by
\* exactly its three secondary entries, has just yielded its record.
C1_Witness ==
    /\ pc = "sector"
    /\ dentry = 4
    /\ Len(name_info.fs_dir) = 1
    /\ name_info.origin[1] = [pos |-> 0, entry_type |-> EXFATFS_DIR_ENTRY_TYPE_FILE]
    /\ name_info.fs_dir[1].type = TSK_FS_NAME_TYPE_DIR
    /\ name_info.fs_dir[1].flags = TSK_FS_NAME_FLAG_ALLOC
    /\ name_info.fs_dir[1].meta_addr = FATFS_FIRSTINO

(* ---- C2: the name of a complete set is its fragments, joined ---- *)
\* The UTF-16 code units taken from the name entries of the open set once
\* the name entry under dispatch has been accepted.
UnitsAfter ==
    name_info.opener.units
        \o SubSeq(current_dentry.utf16_name_chars, 1, NumCharsToCopy(name_info))

\* C2: when a name entry completes a file entry set whose stream entry
\* declared a name of L >= 1 characters, and the set's name entries were all
\* decoded and supply the L characters, the record appended carries the L
\* characters of the fragments in order, those of earlier fragments included.
C2_NameIsConcatenation ==
    [][(/\ CompletesFileSet /\ Dispatched
        /\ dentry_type \in NameTypes
        /\ EnoughSpace(name_info)
        /\ name_info.expected_name_length > 0
        /\ Len(UnitsAfter) = name_info.expected_name_length)
            => name_info'.fs_dir =
                    Append(name_info.fs_dir,
                           FileSetRecord(name_info.opener,
                                         Utf8OfUnits(UnitsAfter)))]_vars

(* ---- C3: an in-use mismatch inside a set ---- *)
\* The entry under dispatch is a stream or name entry in sequence in an open
\* file entry set whose in-use bit differs from the preceding entry's.
VariantMismatch ==
    /\ FileSetOpen
    /\ \/ /\ pc = "dispatch"
          /\ dentry_type \in StreamTypes
          /\ name_info.last_dentry_type \in FileTypes
       \/ NameInSequence
    /\ InUse(name_info.last_dentry_type) # InUse(current_dentry.entry_type)

\* C3 as claimed: an in-use mismatch abandons the set: the step appends no
\* name record and leaves the accumulator closed.
C3_MismatchEmitsNothing ==
    [][(VariantMismatch /\ Dispatched) =>
        /\ name_info'.fs_dir = name_info.fs_dir
        /\ Closed(name_info')]_vars

\* C3 as amended: an in-use mismatch finalizes the set: if name fragments were
\* already assembled, one record with the name assembled so far and the file
\* entry's inode address, kind and flag is appended, and none otherwise (so
\* none on a mismatching stream entry); no record was added for the set
\* before; the mismatching entry leaves nothing behind, the accumulator is
\* closed.
C3_MismatchFinalizesSet ==
    [][(VariantMismatch /\ Dispatched) =>
        /\ \A i \in 1..Len(name_info.origin) :
                name_info.origin[i].pos # name_info.opener.pos
        /\ name_info'.fs_dir =
                IF CStr(name_info.fs_name.name) # << >>
                THEN Append(name_info.fs_dir,
                            FileSetRecord(name_info.opener,
                                          CStr(name_info.fs_name.name)))
                ELSE name_info.fs_dir
        /\ dentry_type \in StreamTypes => name_info'.fs_dir = name_info.fs_dir
        /\ Closed(name_info')]_vars

\* C3 witness: a name entry of the other in-use variant is under dispatch
\* while the set has a name fragment assembled.
C3_Witness ==
    /\ VariantMismatch
    /\ dentry_type \in NameTypes
    /\ name_info.actual_name_length > 0
    /\ CStr(name_info.fs_name.name) # << >>

(* ---- C4: the allocation flag of file set records ---- *)
\* The answer of fatfs_is_sectalloc for the sector of the buffer that holds
\* the entry at position pos.
StatusOfSectorHolding(pos) == alloc_log[(pos \div dentry_cnt_se) + 1]

\* C4: every record of a file entry set is flagged allocated exactly when
\* its file entry has the in-use File type and the sector that contains the
\* file entry was reported allocated.
C4_FlagFollowsContainingSector ==
    \A i \in 1..Len(name_info.fs_dir) :
        name_info.origin[i].entry_type \in FileTypes =>
            (name_info.fs_dir[i].flags = TSK_FS_NAME_FLAG_ALLOC
                <=> /\ name_info.origin[i].entry_type = EXFATFS_DIR_ENTRY_TYPE_FILE
                    /\ StatusOfSectorHolding(name_info.origin[i].pos) = 1)

(* ---- C5: the save at the end of the buffer ---- *)
\* The sector loop is over.
AtEndOfBuffer == pc = "sector" /\ sector_index >= num_sectors

\* A file entry set is open with fewer secondary entries than declared and a
\* non-empty name.
PartialNamePending ==
    /\ FileSetOpen
    /\ name_info.actual_secondary_entry_count
            < name_info.expected_secondary_entry_count
    /\ CStr(name_info.fs_name.name) # << >>

\* C5: when the buffer ends on a file entry set with fewer secondary entries
\* than declared and a non-empty name, the final save appends exactly one
\* record with the name assembled so far, the record is the only one of the
\* set, and the parse returns success.
C5_FlushEmitsPartialNameOnce ==
    [][(AtEndOfBuffer /\ PartialNamePending) =>
        /\ name_info'.fs_dir =
                Append(name_info.fs_dir,
                       FileSetRecord(name_info.opener,
                                     CStr(name_info.fs_name.name)))
        /\ Cardinality({i \in 1..Len(name_info'.origin) :
                            name_info'.origin[i].pos = name_info.opener.pos}) = 1
        /\ Closed(name_info')
        /\ pc' = "done"
        /\ retval' = TSK_OK]_vars

\* C5 witness: the buffer has ended on a file entry set that was declared
\* with three secondary entries and got a stream and one name entry.
C5_Witness ==
    /\ AtEndOfBuffer
    /\ PartialNamePending
    /\ name_info.expected_secondary_entry_count = 3
    /\ name_info.actual_secondary_entry_count = 2
    /\ name_info.last_dentry_type \in NameTypes

(* ---- C6: the read pointer and the sectors ---- *)
\* C6: after sectors whose allocation status could not be looked up, the
\* read pointer is on the entry of the buffer that the sector index and the
\* entry index name, and no entry stored in such a sector is classified.
C6_PointerFollowsSectors ==
    /\ pc \in {"entry", "dispatch"}
            => dentry = sector_index * dentry_cnt_se + dentry_index
    /\ pc = "dispatch" => StatusOfSectorHolding(current_dentry.pos) # -1

(* ---- C7: inode addresses out of range ---- *)
\* The parse returned on a sector whose inode address is past last_inum.
SectorRangeFailure ==
    /\ pc = "done"
    /\ num_sectors > 0
    /\ base_inum_of_sector > last_inum

\* The parse returned on an entry whose inode address is out of range.
EntryRangeFailure ==
    /\ pc = "done"
    /\ entries_count > 0
    /\ current_inum = base_inum_of_sector + dentry_index
    /\ ~fatfs_is_inum_in_range(current_inum)

\* C7: both range failures return the structural-corruption status, not the
\* argument-error status.
C7_RangeFailuresAreCorruption ==
    (SectorRangeFailure \/ EntryRangeFailure) => retval = TSK_COR

(* ---- C8: invalid arguments ---- *)
\* A required pointer is missing or the buffer length is not positive.
InvalidArguments == null_arg # "none" \/ a_buf_len <= 0

\* C8: with a missing pointer or a non-positive buffer length, no sector is
\* looked up, no entry is classified, and a parse that returns returns the
\* argument error, never success.
C8_InvalidArgumentsRejected ==
    InvalidArguments =>
        /\ alloc_log = << >>
        /\ entries_count = 0
        /\ name_info.fs_dir = << >>
        /\ pc = "done" => retval = TSK_ERR

(* ---- C9: valid parses end in success ---- *)
\* The arguments are valid, the name object was allocated, and no inode
\* address was out of range.
ValidParse ==
    /\ null_arg = "none"
    /\ a_buf_len > 0
    /\ num_sectors > 0
    /\ base_inum_of_sector <= last_inum
    /\ current_inum <= last_inum

\* C9: a parse with valid arguments and all inode addresses in range ends,
\* whatever the entries are, with a return of success: it does not abort and
\* returns no other status.
C9_ValidParseSucceeds ==
    ValidParse =>
        /\ pc # "abort"
        /\ pc = "done" => retval = TSK_OK

(* ---- C10: finalize ---- *)
\* C10: no record with an empty name is ever in the directory; finalizing
\* leaves the accumulator closed; finalizing twice in a row gives what
\* finalizing once gives, the second appending nothing; and finalizing with
\* an empty pending name appends nothing.
C10_FinalizeIdempotent ==
    LET once == exfatfs_add_name_to_dir_and_reset_info(name_info)
        twice == exfatfs_add_name_to_dir_and_reset_info(once)
    IN  /\ \A i \in 1..Len(name_info.fs_dir) : name_info.fs_dir[i].name # << >>
        /\ \A i \in 1..Len(once.fs_dir) : once.fs_dir[i].name # << >>
        /\ Closed(once)
        /\ twice = once
        /\ strlen(name_info.fs_name.name) = 0 => once.fs_dir = name_info.fs_dir
        /\ Len(once.fs_dir) <= Len(name_info.fs_dir) + 1

\* C10 witness: a special entry gave a record, then three entries that are
\* no directory entries and the end of the buffer each finalized the closed
\* accumulator, and the directory still has the one record.
C10_Witness ==
    /\ pc = "done"
    /\ retval = TSK_OK
    /\ invalid_entries_count = 3
    /\ Len(name_info.fs_dir) = 1
    /\ name_info.origin[1].pos = 0
    /\ Closed(name_info)

(* ---- C11: the order of the records ---- *)
\* C11: every record in the directory was opened by a file, volume label or
\* special entry of the buffer, the records are in the order in which their
\* opening entries were read, and no opening entry has two records.
C11_RecordsFollowOpeners ==
    /\ Len(name_info.origin) = Len(name_info.fs_dir)
    /\ \A i \in 1..Len(name_info.origin) :
            /\ name_info.origin[i].pos >= 0
            /\ name_info.origin[i].pos < dentry + 1
            /\ name_info.origin[i].entry_type
                    \in (FileTypes \cup LabelTypes \cup SpecialTypes)
    /\ \A i, j \in 1..Len(name_info.origin) :
            i < j => name_info.origin[i].pos < name_info.origin[j].pos

\* C11 witness: the record of a file entry set is followed by the record of
\* the special entry whose dispatch saved it.
C11_Witness ==
    /\ Len(name_info.fs_dir) = 2
    /\ name_info.origin[1].entry_type \in FileTypes
    /\ name_info.origin[2].entry_type \in SpecialTypes
    /\ name_info.origin[2].pos = name_info.origin[1].pos + 3

(* ---- C12: the directory-looks-corrupt flag ---- *)
\* C12: after every step the flag is set exactly if the switch has handled
\* four entries and the first four it handled were all no entries; a set
\* flag stays set; and an entry classified while the flag is set got the
\* hint FALSE, whatever the allocation status of its sector.
C12_CorruptFlagIsStickyLeadIn ==
    [][/\ is_corrupt_dir' <=> (lead'.seen = 4 /\ lead'.invalid = 4)
       /\ is_corrupt_dir => is_corrupt_dir'
       /\ (pc' = "dispatch" /\ is_corrupt_dir') => ~do_basic_tests_only']_vars

\* C12 witness: after four leading non-entries a file entry of an allocated
\* sector is under dispatch with the flag set.
C12_Witness ==
    /\ pc = "dispatch"
    /\ is_corrupt_dir
    /\ entries_count = 5
    /\ name_info.sector_is_allocated = 1
    /\ dentry_type \in FileTypes

(* ---- C13: the check sum of one entry ---- *)
\* A 16-bit value rotated right by one bit.
RotateRight16(v) == (v \div 2) + (v % 2) * 32768

\* The in-use type of a file, stream or name entry type.
InUseType(t) ==
    CASE t = EXFATFS_DIR_ENTRY_TYPE_DELETED_FILE -> EXFATFS_DIR_ENTRY_TYPE_FILE
      [] t = EXFATFS_DIR_ENTRY_TYPE_DELETED_FILE_STREAM ->
            EXFATFS_DIR_ENTRY_TYPE_FILE_STREAM
      [] t = EXFATFS_DIR_ENTRY_TYPE_DELETED_FILE_NAME ->
            EXFATFS_DIR_ENTRY_TYPE_FILE_NAME
      [] OTHER -> t

\* The bytes of an entry that count for the check sum, in order: the in-use
\* tag, then bytes 1..31, without bytes 2 and 3 for a file entry.
FoldedBytes(e) ==
    LET data == DentryData(e)
        rest == [i \in 1..(DentrySize - 1) |-> data[i + 1]]
    IN  <<TypeByte(InUseType(e.entry_type))>>
            \o IF e.entry_type \in FileTypes
               THEN <<rest[1]>> \o SubSeq(rest, 4, DentrySize - 1)
               ELSE rest

RECURSIVE ReferenceFold(_, _)
\* The reference fold of bytes into the 16-bit value v: the fold of one
\* byte is a rotation and an addition modulo 2^16, and the fold of a longer
\* sequence is the fold of its second half into the fold of its first half.
ReferenceFold(v, bytes) ==
    CASE Len(bytes) = 0 -> v
      [] Len(bytes) = 1 -> (RotateRight16(v) + bytes[1]) % 65536
      [] OTHER ->
            LET half == Len(bytes) \div 2
                first == ReferenceFold(v, SubSeq(bytes, 1, half))
            IN  IF first \in 0..65535
                THEN ReferenceFold(first, SubSeq(bytes, half + 1, Len(bytes)))
                ELSE first

\* C13: the check sum update of an entry, whatever the entry and the running
\* value, ends and is the reference fold of the entry's bytes into the
\* running value and changes nothing else; the update of a
\* deleted-variant entry is the update of the same entry with its in-use
\* tag; and the declared check sum of a file entry (bytes 2 and 3) has no
\* influence on it.
C13_CheckSumIsReferenceFold ==
    [][pc = "checksum" =>
        /\ pc' = "checksummed"
        /\ name_info'.actual_check_sum =
                ReferenceFold(name_info.actual_check_sum,
                              FoldedBytes(current_dentry))
        /\ name_info' =
                [name_info EXCEPT !.actual_check_sum = name_info'.actual_check_sum]
        /\ name_info'.actual_check_sum =
                exfatfs_update_file_entry_set_checksum(name_info,
                    [current_dentry EXCEPT
                        !.entry_type = InUseType(@)]).actual_check_sum
        /\ current_dentry.entry_type \in FileTypes =>
                \A c \in DeclaredCheckSums :
                    name_info'.actual_check_sum =
                        exfatfs_update_file_entry_set_checksum(name_info,
                            [current_dentry EXCEPT
                                !.check_sum = c]).actual_check_sum]_vars

\* C13: what holds of the update in a build that wraps the sum: the
\* reference fold, for every entry and every running value.
C13_WrappedUpdateIsReferenceFold ==
    pc = "checksum" =>
        exfatfs_update_file_entry_set_checksum(name_info,
                                               current_dentry).actual_check_sum
            = ReferenceFold(name_info.actual_check_sum,
                            FoldedBytes(current_dentry))

(* ---- C14: a name longer than the name object ---- *)
\* The UTF-16 code units of the name entries of the open set, the entry
\* under dispatch included.
DeclaredUnits == name_info.opener.units \o current_dentry.utf16_name_chars

\* C14: when a name entry completes a file entry set whose stream entry
\* declared a name longer than the name object can hold, the parse goes on
\* and the one record appended for the set carries the name cut to
\* EXFATFS_MAX_NAME_LEN_UTF8 - 1 characters: the characters of the fragments
\* in order, up to the point where the name object is full.
C14_OversizedNameIsTruncated ==
    [][(/\ CompletesFileSet /\ pc = "dispatch"
        /\ dentry_type \in NameTypes
        /\ name_info.expected_name_length > EXFATFS_MAX_NAME_LEN_UTF8 - 1
        /\ Len(name_info.opener.units) = name_info.actual_name_length
        /\ Len(DeclaredUnits) >= EXFATFS_MAX_NAME_LEN_UTF8 - 1)
            => /\ pc' # "abort"
               /\ name_info'.fs_dir =
                    Append(name_info.fs_dir,
                           FileSetRecord(name_info.opener,
                               Utf8OfUnits(SubSeq(DeclaredUnits, 1,
                                    EXFATFS_MAX_NAME_LEN_UTF8 - 1))))]_vars

(* ---- C15: the sink after a hard failure ---- *)
\* C15: the return on a sector or an entry whose inode address is out of
\* range leaves the sink as it was before the sector or entry was reached:
\* no record is removed, and none is appended for the set that is open.
C15_HardFailureKeepsSink ==
    [][(/\ pc \in {"sector", "entry"}
        /\ pc' = "done"
        /\ retval' \in {TSK_COR, TSK_ERR})
            => /\ name_info'.fs_dir = name_info.fs_dir
               /\ name_info'.origin = name_info.origin]_vars

\* C15 witness: the parse returned on a range failure after it had appended
\* a record, while a file entry set with a name under assembly was open.
C15_Witness ==
    /\ SectorRangeFailure \/ EntryRangeFailure
    /\ retval \in {TSK_COR, TSK_ERR}
    /\ Len(name_info.fs_dir) = 1
    /\ name_info.origin[1].entry_type = EXFATFS_DIR_ENTRY_TYPE_ACT
    /\ FileSetOpen
    /\ CStr(name_info.fs_name.name) = <<65, 66>>

(* ---- C16: secondary entries out of sequence ---- *)
\* The entry under dispatch is a stream entry that does not follow a file
\* entry, or a name entry that follows neither a stream nor a name entry.
OutOfSequence ==
    /\ pc = "dispatch"
    /\ \/ /\ dentry_type \in StreamTypes
          /\ name_info.last_dentry_type \notin FileTypes
       \/ /\ dentry_type \in NameTypes
          /\ name_info.last_dentry_type \notin (StreamTypes \cup NameTypes)

\* C16: a stream or name entry out of sequence is not accepted: its handler
\* saves the name under assembly, if any, and leaves the accumulator reset;
\* the accumulator and the records are what the save makes of the state
\* before the entry, whatever the fields of the entry.
C16_OutOfSequenceFinalizes ==
    [][(OutOfSequence /\ Dispatched)
            => /\ name_info' = exfatfs_add_name_to_dir_and_reset_info(name_info)
               /\ Closed(name_info')
               /\ \A f \in StreamFields \cup NameFields :
                    f.entry_type = dentry_type
                        => Handle(name_info, dentry_type, DentryAt(dentry, f),
                                  current_inum) = name_info'
               /\ name_info'.fs_dir =
                    IF strlen(name_info.fs_name.name) > 0
                    THEN tsk_fs_dir_add(name_info.fs_dir, name_info.fs_name)
                    ELSE name_info.fs_dir]_vars

\* C16 witness: a stream entry that declares a name length is dispatched
\* after a name entry, while a name is under assembly.
C16_Witness ==
    /\ OutOfSequence
    /\ dentry_type \in StreamTypes
    /\ current_dentry.file_name_length = MaxNameLength
    /\ name_info.last_dentry_type \in NameTypes
    /\ CStr(name_info.fs_name.name) = <<65, 66>>

(* ---- C17: an entry that starts a new set ---- *)
\* The entry under dispatch starts a new set or is no entry: a file, volume
\* label or special file entry, or bytes that are no entry.
StartsNewSet ==
    /\ pc = "dispatch"
    /\ dentry_type \notin (StreamTypes \cup NameTypes)

\* A set is open: entries were accepted since the last reset.
SetOpen == name_info.last_dentry_type # EXFATFS_DIR_ENTRY_TYPE_NONE

\* What a name info shows: its fields, and of the name array the C string.
Shown(a_name_info) ==
    [a_name_info EXCEPT !.fs_name.name = CStr(@)]

C18_NameEntryFoldsCheckSum ==
    [][(/\ FileSetOpen /\ NameAccepted /\ Dispatched
        /\ ~CompletesFileSet)
            => name_info'.actual_check_sum =
                    exfatfs_update_file_entry_set_checksum(
                        name_info, current_dentry).actual_check_sum]_vars

(* ---- C19: the special file entries ---- *)
\* C19: every special file entry the switch hands to
\* exfats_parse_special_file_dentry passes the assertions of the handler and
\* appends, after the record of the name under assembly if any, one record
\* with the virtual file name of its type and its own inode address, and the
\* accumulator is left reset.
C19_SpecialEntryYieldsVirtualFile ==
    [][(pc = "dispatch" /\ dentry_type \in SpecialTypes)
            => LET saved == exfatfs_add_name_to_dir_and_reset_info(name_info)
               IN  /\ SpecialFileAssertion(current_dentry)
                   /\ pc' # "abort"
                   /\ Len(name_info'.fs_dir) = Len(saved.fs_dir) + 1
                   /\ SubSeq(name_info'.fs_dir, 1, Len(saved.fs_dir))
                        = saved.fs_dir
                   /\ name_info'.fs_dir[Len(name_info'.fs_dir)].name
                        = VirtFilename(dentry_type)
                   /\ name_info'.fs_dir[Len(name_info'.fs_dir)].meta_addr
                        = current_inum
                   /\ Closed(name_info')]_vars

(* ---- C20: the kind and the allocation flag of the records ---- *)
\* C20: every record in the directory is one of a regular file or of a
\* directory, and is flagged allocated or unallocated.
C20_RecordsHaveKindAndFlag ==
    \A i \in 1..Len(name_info.fs_dir) :
        /\ name_info.fs_dir[i].type
                \in {TSK_FS_NAME_TYPE_REG, TSK_FS_NAME_TYPE_DIR}
        /\ name_info.fs_dir[i].flags
                \in {TSK_FS_NAME_FLAG_ALLOC, TSK_FS_NAME_FLAG_UNALLOC}

(* ---- C21: the accumulator after a volume label entry ---- *)
\* The conversion exfats_parse_vol_label_dentry makes of the label of the
\* entry under dispatch.
LabelConv ==
    fatfs_utf16_inode_str_2_utf8(current_dentry.volume_label,
        current_dentry.utf16_char_count + 1,
        exfatfs_add_name_to_dir_and_reset_info(name_info).fs_name.name,
        EXFATFS_MAX_NAME_LEN_UTF8)

\* C21: a volume label entry leaves no set open.  After the empty variant
\* and after a label whose conversion fails no record was appended for the
\* label; after a label that was converted exactly one was; in each case the
\* accumulator is in the closed state.
C21_LabelLeavesNoSetOpen ==
    [][(pc = "dispatch" /\ dentry_type \in LabelTypes /\ Dispatched)
            => LET saved == exfatfs_add_name_to_dir_and_reset_info(name_info)
               IN  /\ Closed(name_info')
                   /\ IF \/ dentry_type = EXFATFS_DIR_ENTRY_TYPE_VOLUME_LABEL_EMPTY
                         \/ ~LabelConv.ok
                      THEN name_info'.fs_dir = saved.fs_dir
                      ELSE /\ Len(name_info'.fs_dir) = Len(saved.fs_dir) + 1
                           /\ SubSeq(name_info'.fs_dir, 1, Len(saved.fs_dir))
                                = saved.fs_dir]_vars

\* C21: what holds of every volume label entry: the records are as claimed,
\* and the accumulator is closed but for the type of the last entry, which
\* stays that of the label after the empty variant.
C21_LabelClosesButForLastType ==
    [][(pc = "dispatch" /\ dentry_type \in LabelTypes /\ Dispatched)
            => LET saved == exfatfs_add_name_to_dir_and_reset_info(name_info)
               IN  /\ Closed([name_info' EXCEPT
                                !.last_dentry_type = EXFATFS_DIR_ENTRY_TYPE_NONE])
                   /\ name_info'.last_dentry_type =
                        IF dentry_type = EXFATFS_DIR_ENTRY_TYPE_VOLUME_LABEL_EMPTY
                        THEN EXFATFS_DIR_ENTRY_TYPE_VOLUME_LABEL_EMPTY
                        ELSE EXFATFS_DIR_ENTRY_TYPE_NONE
                   /\ IF \/ dentry_type = EXFATFS_DIR_ENTRY_TYPE_VOLUME_LABEL_EMPTY
                         \/ ~LabelConv.ok
                      THEN name_info'.fs_dir = saved.fs_dir
                      ELSE /\ Len(name_info'.fs_dir) = Len(saved.fs_dir) + 1
                           /\ SubSeq(name_info'.fs_dir, 1, Len(saved.fs_dir))
                                = saved.fs_dir]_vars

(* ---- C22: a name entry whose conversion fails ---- *)
\* The entry under dispatch is a name entry in sequence, of the in-use
\* variant of the set, whose segment is converted and the conversion fails.
NameConvFails ==
    /\ NameInSequence
    /\ InUse(name_info.last_dentry_type) = InUse(current_dentry.entry_type)
    /\ EnoughSpace(name_info)
    /\ ~NameSegmentConv(name_info, current_dentry).ok

\* C22: a name entry whose conversion fails ends the set at once: when
\* characters were assembled from earlier name entries, one record is
\* appended whose name is those characters, with nothing of the failed
\* conversion in it, and otherwise no record is appended; the accumulator is
\* reset; and a name entry that comes while the accumulator is reset is
\* dropped without a record.
C22_FailedConvSavesEarlierName ==
    [][/\ (FileSetOpen /\ NameConvFails /\ Dispatched)
            => /\ Closed(name_info')
               /\ name_info'.fs_dir =
                    IF strlen(name_info.fs_name.name) > 0
                    THEN Append(name_info.fs_dir,
                                FileSetRecord(name_info.opener,
                                              CStr(name_info.fs_name.name)))
                    ELSE name_info.fs_dir
       /\ (/\ pc = "dispatch" /\ dentry_type \in NameTypes
           /\ Closed(name_info) /\ Dispatched)
            => /\ Closed(name_info')
               /\ name_info'.fs_dir = name_info.fs_dir]_vars

(* ---- C23: the lengths of the name under assembly ---- *)
\* The parser stands between two entries, or has returned.
BetweenEntries == pc \in {"sector", "entry", "done"}

\* The bounds on the name under assembly.
NameLengthsBounded ==
    /\ name_info.actual_name_length <= name_info.expected_name_length
    /\ strlen(name_info.fs_name.name) <= EXFATFS_MAX_NAME_LEN_UTF8 - 1

\* The segment of the name entry dispatched would bring the name to
\* EXFATFS_MAX_NAME_LEN_UTF8 - 1 units or more.
WouldNotFit ==
    name_info.actual_name_length + NumCharsToCopy(name_info)
        >= EXFATFS_MAX_NAME_LEN_UTF8 - 1

\* C23: between entries the length of the name assembled is at most the
\* length the stream entry declared, and the name is at most
\* EXFATFS_MAX_NAME_LEN_UTF8 - 1 bytes long; a name entry accepted into a set
\* it does not complete adds at most EXFATFS_MAX_FILE_NAME_SEGMENT_LENGTH to
\* the length assembled; and one whose segment would not fit leaves the name
\* and the length assembled as they were and is counted as a secondary
\* entry.
C23_NameLengthsStayBounded ==
    /\ NameLengthsBounded
    /\ [][/\ BetweenEntries' => NameLengthsBounded'
          /\ (FileSetOpen /\ NameAccepted /\ Dispatched /\ ~CompletesFileSet)
                => /\ name_info'.actual_name_length
                        >= name_info.actual_name_length
                   /\ name_info'.actual_name_length
                        <= name_info.actual_name_length
                            + EXFATFS_MAX_FILE_NAME_SEGMENT_LENGTH
                   /\ name_info'.actual_secondary_entry_count
                        = name_info.actual_secondary_entry_count + 1
                   /\ WouldNotFit
                        => /\ name_info'.fs_name.name = name_info.fs_name.name
                           /\ name_info'.actual_name_length
                                = name_info.actual_name_length]_vars

\* C23 witness: the last name entry of a name longer than the name object
\* was counted into the open set, and the length assembled stayed at the
\* last segment boundary below the capacity.
C23_Witness ==
    /\ BetweenEntries
    /\ FileSetOpen
    /\ name_info.last_dentry_type \in NameTypes
    /\ name_info.actual_secondary_entry_count = LongNameSegments + 1
    /\ name_info.expected_name_length \in LongNameLengths
    /\ name_info.actual_name_length
            = EXFATFS_MAX_NAME_LEN_UTF8 - EXFATFS_MAX_FILE_NAME_SEGMENT_LENGTH
    /\ ~EnoughSpace(name_info)

(* ---- C24: the declared check sum has no part in what is emitted ---- *)
\* The check sums computed for the open set before and after the entry
\* under dispatch: the declared check sums that would agree with them.
AgreeingCheckSums ==
    {name_info.actual_check_sum}
        \cup (IF dentry_type \in StreamTypes
              THEN {exfatfs_update_file_entry_set_checksum(
                        name_info, current_dentry).actual_check_sum}
              ELSE {})

\* Declared check sums compared: some that differ from the check sum
\* computed and those that agree with it.
ComparedCheckSums == DeclaredCheckSums \cup AgreeingCheckSums

\* The check sums the entry may declare: any for a file entry, which has
\* the field; the other entries have none.
CheckSumsOf(a_dentry) ==
    IF a_dentry.entry_type \in FileTypes
    THEN DeclaredCheckSums
    ELSE {a_dentry.check_sum}

\* The name info but for the declared check sum it holds.
SameButExpectedCheckSum(a, b) ==
    a = [b EXCEPT !.expected_check_sum = a.expected_check_sum]

\* C24: a parse that differs from this one only in the check sums its file
\* entries declare goes through the same steps: whatever declared check sum
\* the name info holds and whatever check sum a file entry read declares, the
\* entry is classified alike, its handler and the final save leave the same
\* directory and the same name info but for the declared check sum held,
\* and the return value is the same; so a set whose check sum computed
\* differs from the declared one is saved as one whose check sums agree.
C24_EmissionIgnoresCheckSum ==
    [][/\ (pc = "entry" /\ pc' = "dispatch")
            => \A c \in CheckSumsOf(current_dentry') :
                    exfatfs_is_dentry([current_dentry' EXCEPT !.check_sum = c],
                                      do_basic_tests_only') = dentry_type'
       /\ Dispatched
            => \A e \in ComparedCheckSums, c \in CheckSumsOf(current_dentry) :
                    SameButExpectedCheckSum(
                        Handle([name_info EXCEPT !.expected_check_sum = e],
                               dentry_type,
                               [current_dentry EXCEPT !.check_sum = c],
                               current_inum),
                        name_info')
       /\ (pc = "sector" /\ pc' = "done" /\ retval' = TSK_OK)
            => \A e \in ComparedCheckSums :
                    exfatfs_add_name_to_dir_and_reset_info(
                        [name_info EXCEPT !.expected_check_sum = e])
                        = name_info']_vars

\* C24 witness: the last secondary entry of a file entry set with a name is
\* under dispatch, and the check sum computed for the set differs from the
\* check sum its file entry declared.
C24_Witness ==
    /\ pc = "dispatch"
    /\ CompletesFileSet
    /\ dentry_type \in NameTypes
    /\ Len(PendingNameAfter) > 0
    /\ name_info.expected_check_sum \in CheckSums
    /\ name_info.actual_check_sum # name_info.expected_check_sum

\* The same entry under dispatch in a set whose file entry declared the
\* check sum computed for the set.
C24_AgreeingSetReached ==
    /\ pc = "dispatch"
    /\ CompletesFileSet
    /\ dentry_type \in NameTypes
    /\ Len(PendingNameAfter) > 0
    /\ name_info.actual_check_sum = name_info.expected_check_sum

(* ---- C25: the count of secondary entries of the open set ---- *)
\* C25: between entries, the count of secondary entries accepted into the
\* open file entry set is at most the count its file entry declared,
\* whatever that count, zero included.
C25_CountWithinDeclared ==
    (BetweenEntries /\ FileSetOpen)
        => name_info.actual_secondary_entry_count
                <= name_info.expected_secondary_entry_count

\* What the handlers do keep: the bound holds for every open set whose file
\* entry declared at least one secondary entry.
C25_CountWithinPositiveDeclared ==
    (BetweenEntries /\ FileSetOpen
        /\ name_info.expected_secondary_entry_count > 0)
        => name_info.actual_secondary_entry_count
                < name_info.expected_secondary_entry_count

====
